---- MODULE Spec2Model ----
(***************************************************************************)
(* Ledger computation, statement rendering and the client detail / reports *)
(* views of the Dinix client-ledger application.                           *)
(*                                                                         *)
(*   src/src/lib/pdfGenerator.ts        statement renderer and combiner    *)
(*   src/src/components/ClientDetail.tsx client detail view (handlers)     *)
(*   src/unnamed/part_002               reports view (Reports component)   *)
(*                                                                         *)
(* Amounts are integers (minor units); floating-point rounding of the      *)
(* JavaScript number type is outside the model.                            *)
(***************************************************************************)
EXTENDS Integers, Sequences, FiniteSets, TLC

\* ------------------------------------------------------------------ bounds
MaxLen == 2
MaxClients == 2

\* ------------------------------------------------------- values and pools
\* A numeric field that is missing (undefined / null) in the record.
\* Amounts are non-negative, so -1 is free to stand for "missing".
Null == 0 - 1

\* `v || 0` : a missing or zero amount counts as 0.
OrZero(v) == IF v = Null THEN 0 ELSE v

\* The ledger entries the pure functions are applied to.  Text the code looks
\* into is a sequence of characters; the empty sequence is the empty (or
\* missing) description.  Dates are day numbers; two of them give every
\* order and tie pattern of a short list.
Entry(d, description, debit, credit) ==
  [transaction_date |-> d, description |-> description,
   debit |-> debit, credit |-> credit]

TxPool ==
  { Entry(1, <<"r","e","n","t">>, 0, 5),
    Entry(2, <<"r","e","n","t">>, 0, 5),
    Entry(1, <<>>, 3, 0),
    Entry(2, <<>>, 3, 0),
    Entry(2, <<"M","G"," ","r","u","n">>, 2, Null),
    Entry(1, <<"3","m","g">>, Null, 4) }

\* the i-th client a caller holds
ClientNames == <<"A", "B", "C", "D", "E", "F", "G", "H", "I", "J", "K", "L">>
ClientNo(i) == [client_name |-> <<ClientNames[i]>>,
                client_code |-> <<"C" \o ToString(i)>>]

ReportTypes == {"full", "summary", "kes-only", "usd-only"}

SeqsUpTo(S, n) == UNION { [1..k -> S] : k \in 0..n }

\* ------------------------------------------------------- sequence helpers
RECURSIVE SelectIdx(_, _)
\* the subsequence of s at the indices in I, in order (Array.prototype.filter)
SelectIdx(s, I) ==
  IF s = <<>> THEN <<>>
  ELSE LET n == Len(s)
           front == SelectIdx(SubSeq(s, 1, n - 1), I)
       IN IF n \in I THEN Append(front, s[n]) ELSE front

RECURSIVE Concat(_)
\* concatenation of a sequence of sequences
Concat(ss) ==
  IF ss = <<>> THEN <<>>
  ELSE Concat(SubSeq(ss, 1, Len(ss) - 1)) \o ss[Len(ss)]

Abs(x) == IF x < 0 THEN 0 - x ELSE x

\* ------------------------------------------------------ Ledger Aggregator
RECURSIVE reduceDebit(_)
\* transactions.reduce((sum, t) => sum + (t.debit || 0), 0)
reduceDebit(transactions) ==
  IF transactions = <<>> THEN 0
  ELSE reduceDebit(SubSeq(transactions, 1, Len(transactions) - 1))
         + OrZero(transactions[Len(transactions)].debit)

RECURSIVE reduceCredit(_)
\* transactions.reduce((sum, t) => sum + (t.credit || 0), 0)
reduceCredit(transactions) ==
  IF transactions = <<>> THEN 0
  ELSE reduceCredit(SubSeq(transactions, 1, Len(transactions) - 1))
         + OrZero(transactions[Len(transactions)].credit)

\* calculateSummary with the balance taken the wrong way round
calculateSummaryFlipped(transactions) ==
  LET receivable == reduceDebit(transactions)
      paid == reduceCredit(transactions)
      balance == receivable - paid
  IN [receivable |-> receivable, paid |-> paid, balance |-> balance]

\* ClientDetail.calculateSummary: the value handed to setSummary
calculateSummary(transactions) ==
  LET receivable == reduceDebit(transactions)
      paid == reduceCredit(transactions)
      balance == paid - receivable
  IN [receivable |-> receivable, paid |-> paid, balance |-> balance]

RECURSIVE forEachSum(_, _)
\* txns.forEach((t) => { paid += t.credit || 0; receivable += t.debit || 0 })
forEachSum(txns, acc) ==
  IF txns = <<>> THEN acc
  ELSE forEachSum(Tail(txns),
                  [paid |-> acc.paid + OrZero(Head(txns).credit),
                   receivable |-> acc.receivable + OrZero(Head(txns).debit)])

\* calculateSummary local to generateCombinedClientsPDFReport
combinedCalculateSummary(txns) ==
  LET acc == forEachSum(txns, [paid |-> 0, receivable |-> 0])
      balance == acc.paid - acc.receivable
  IN [paid |-> acc.paid, receivable |-> acc.receivable, balance |-> balance]

\* --------------------------------------------------------- date ordering
MsPerDay == 86400000

\* new Date(t.transaction_date).getTime(): a calendar date (YYYY-MM-DD) is
\* parsed as UTC midnight of that day.
getTime(transaction_date) == transaction_date * MsPerDay

\* the comparator (a, b) => getTime(a) - getTime(b)
compareByDate(a, b) == getTime(a.transaction_date) - getTime(b.transaction_date)

\* position of t in an already sorted s: after every element that does not
\* compare greater (Array.prototype.sort is stable)
insertSorted(s, t) ==
  LET k == Cardinality({ i \in 1..Len(s) : compareByDate(s[i], t) <= 0 })
  IN SubSeq(s, 1, k) \o <<t>> \o SubSeq(s, k + 1, Len(s))

RECURSIVE sortByDate(_)
\* [...txns].sort(compareByDate): ascending by date, ties in input order
sortByDate(txns) ==
  IF txns = <<>> THEN <<>>
  ELSE insertSorted(sortByDate(SubSeq(txns, 1, Len(txns) - 1)), txns[Len(txns)])

\* ------------------------------------------------------------ text cells
\* Display text is a sequence of tokens (characters where the code looks
\* inside the text, longer tokens where it only concatenates).
formatCurrency(amount, sym) == <<sym, " ", ToString(amount)>>

\* toLocaleDateString("en-GB", ...) of the parsed date
formatDate(transaction_date) == <<"day ", ToString(transaction_date)>>

WordChars ==
  { "a","b","c","d","e","f","g","h","i","j","k","l","m","n","o","p","q","r",
    "s","t","u","v","w","x","y","z","A","B","C","D","E","F","G","H","I","J",
    "K","L","M","N","O","P","Q","R","S","T","U","V","W","X","Y","Z","0","1",
    "2","3","4","5","6","7","8","9","_" }

\* "mg" looked for anywhere in the text
mgTestAnywhere(text) ==
  \E i \in 1..(Len(text) - 1) :
    /\ text[i] \in {"m", "M"}
    /\ text[i + 1] \in {"g", "G"}

\* /\bmg\b/i.test(text)
mgTest(text) ==
  \E i \in 1..(Len(text) - 1) :
    /\ text[i] \in {"m", "M"}
    /\ text[i + 1] \in {"g", "G"}
    /\ (i = 1 \/ text[i - 1] \notin WordChars)
    /\ (i + 1 = Len(text) \/ text[i + 2] \notin WordChars)

\* ----------------------------------------------------- Statement Renderer
RECURSIVE mapRows(_, _, _)
\* sorted.map((t) => [...]) with the running balance runBal carried along
mapRows(sorted, sym, runBal) ==
  IF sorted = <<>> THEN <<>>
  ELSE LET t == Head(sorted)
           inAmt == OrZero(t.credit)
           outAmt == OrZero(t.debit)
           bal == runBal + inAmt - outAmt
       IN << << formatDate(t.transaction_date),
                t.description,
                IF inAmt > 0 THEN formatCurrency(inAmt, sym) ELSE <<"-">>,
                IF outAmt > 0 THEN formatCurrency(outAmt, sym) ELSE <<"-">>,
                (IF bal < 0 THEN <<"-">> ELSE <<>>)
                   \o formatCurrency(Abs(bal), sym) >> >>
          \o mapRows(Tail(sorted), sym, bal)

RECURSIVE mapRowsNoCarry(_, _)
\* the rows with the balance of each row started afresh instead of carried
mapRowsNoCarry(sorted, sym) ==
  IF sorted = <<>> THEN <<>>
  ELSE mapRows(<<Head(sorted)>>, sym, 0) \o mapRowsNoCarry(Tail(sorted), sym)

buildTableDataNoCarry(txns, sym) == mapRowsNoCarry(sortByDate(txns), sym)

\* the body rows of a section: [Date, Description, Money IN, Money OUT, Balance]
buildTableData(txns, sym) == mapRows(sortByDate(txns), sym, 0)

\* txns.filter((t) => /\bmg\b/i.test(t.description || "")).length
mgCount(txns) == Cardinality({ i \in 1..Len(txns) : mgTest(txns[i].description) })

\* what renderSection hands to autoTable
renderSection(label, txns, sym, summary) ==
  LET rows == buildTableData(txns, sym)
      footBal == (IF summary.balance < 0 THEN <<"-">> ELSE <<>>)
                    \o formatCurrency(Abs(summary.balance), sym)
      footRow == << <<>>, <<"BALANCE">>, formatCurrency(summary.paid, sym),
                    formatCurrency(summary.receivable, sym), footBal >>
      n == mgCount(txns)
      mgRow == << <<>>,
                  <<"Mileage (MG) Count: ", ToString(n), " trip">>
                     \o (IF n # 1 THEN <<"s">> ELSE <<>>),
                  <<>>, <<>>, <<>> >>
  IN [label |-> label, sym |-> sym, body |-> rows, foot |-> <<footRow, mgRow>>]

\* showKES taken from the report type alone
showKESAnyLength(reportType, transactionsKES) ==
  reportType \in {"full", "kes-only", "summary"}

showKES(reportType, transactionsKES) ==
  /\ reportType \in {"full", "kes-only", "summary"}
  /\ Len(transactionsKES) > 0

showUSD(reportType, transactionsUSD) ==
  /\ reportType \in {"full", "usd-only"}
  /\ Len(transactionsUSD) > 0

\* new Date().toISOString().split("T")[0]
todayISO == "2024-01-15"

NoDoc ==
  [built |-> FALSE, client_name |-> <<>>, client_code |-> <<>>,
   sections |-> <<>>, notice |-> FALSE]

NoDelivery ==
  [thrown |-> <<>>, doc |-> NoDoc, fileName |-> <<>>, onDocReady |-> 0, save |-> 0]

\* both branches of the hand-off taken when a callback is supplied
handOffBoth(doc, fileName, onDocReady) ==
  [thrown |-> <<>>, doc |-> doc, fileName |-> fileName,
   onDocReady |-> IF onDocReady THEN 1 ELSE 0, save |-> 1]

\* if (onDocReady) onDocReady(doc, fileName) else doc.save(fileName)
handOff(doc, fileName, onDocReady) ==
  [thrown |-> <<>>, doc |-> doc, fileName |-> fileName,
   onDocReady |-> IF onDocReady THEN 1 ELSE 0,
   save |-> IF onDocReady THEN 0 ELSE 1]

\* the catch block throwing a message without the cause
rethrowBare(fault) ==
  [NoDelivery EXCEPT !.thrown = <<"PDF generation failed">>]

\* catch (error): throw new Error(`PDF generation failed: ${error.message}`)
rethrow(fault) ==
  [NoDelivery EXCEPT !.thrown = <<"PDF generation failed: ", fault>>]

\* generateClientPDFReport(options, onDocReady).  fault is the message of an
\* Error thrown inside the try block by the document library while the
\* document is drawn ("" for none).  The result records the document, the
\* thrown error and the hand-offs made.
generateClientPDFReport(options, onDocReady, fault) ==
  LET kes == showKES(options.reportType, options.transactionsKES)
      usd == showUSD(options.reportType, options.transactionsUSD)
      sections ==
        (IF kes
           THEN <<renderSection("TRANSACTION HISTORY - KES",
                                options.transactionsKES, "KES", options.summaryKES)>>
           ELSE <<>>)
        \o
        (IF usd
           THEN <<renderSection("TRANSACTION HISTORY - USD",
                                options.transactionsUSD, "USD", options.summaryUSD)>>
           ELSE <<>>)
      doc == [built |-> TRUE,
              client_name |-> options.client.client_name,
              client_code |-> options.client.client_code,
              sections |-> sections,
              notice |-> (~kes /\ ~usd)]
      fileName == <<"Dinix_Statement_">> \o options.client.client_code
                    \o <<"_", todayISO, ".pdf">>
  IN IF fault # ""
       THEN rethrow(fault)
       ELSE handOff(doc, fileName, onDocReady)

\* ------------------------------------------------------ Multi-Client Combiner
RECURSIVE join(_, _)
\* Array.prototype.join
join(parts, sep) ==
  IF parts = <<>> THEN <<>>
  ELSE IF Len(parts) = 1 THEN parts[1]
  ELSE parts[1] \o sep \o join(Tail(parts), sep)

displayName(allNames) ==
  IF Len(allNames) <= 2
    THEN join(allNames, <<" & ">>)
    ELSE join(SubSeq(allNames, 1, 2), <<" & ">>)
           \o <<" + ", ToString(Len(allNames) - 2), " more">>

combinedClient(clients) ==
  [client_name |-> displayName([i \in 1..Len(clients) |-> clients[i].client.client_name]),
   client_code |-> join([i \in 1..Len(clients) |-> clients[i].client.client_code],
                        <<" + ">>)]

\* the copy always given the ' - ' separator
prefixedAlways(client, t) ==
  [t EXCEPT !.description = client.client_name \o <<" ", "-", " ">> \o t.description]

\* { ...t, description: baseDescription ? `${name} - ${baseDescription}` : name }
prefixed(client, t) ==
  [t EXCEPT !.description =
     IF t.description # <<>>
       THEN client.client_name \o <<" ", "-", " ">> \o t.description
       ELSE client.client_name]

\* the forEach loops skipping the transactions without a description
pushAllSkipEmpty(clients, cur) ==
  Concat([i \in 1..Len(clients) |->
            LET list == IF cur = "kes" THEN clients[i].transactionsKES
                                       ELSE clients[i].transactionsUSD
            IN SelectSeq([j \in 1..Len(list) |-> prefixed(clients[i].client, list[j])],
                         LAMBDA t : t.description # clients[i].client.client_name)])

\* allKES / allUSD after the forEach loops (cur selects the list)
pushAll(clients, cur) ==
  Concat([i \in 1..Len(clients) |->
            LET list == IF cur = "kes" THEN clients[i].transactionsKES
                                       ELSE clients[i].transactionsUSD
            IN [j \in 1..Len(list) |-> prefixed(clients[i].client, list[j])]])

\* the options generateCombinedClientsPDFReport passes on (clients non-empty)
combinedOptions(clients) ==
  LET combinedKES == sortByDate(pushAll(clients, "kes"))
      combinedUSD == sortByDate(pushAll(clients, "usd"))
  IN [client |-> combinedClient(clients),
      transactionsKES |-> combinedKES,
      transactionsUSD |-> combinedUSD,
      summaryKES |-> combinedCalculateSummary(combinedKES),
      summaryUSD |-> combinedCalculateSummary(combinedUSD),
      reportType |-> "full"]

\* the zero-clients guard left out
generateCombinedUnguarded(clients, onDocReady, fault) ==
  generateClientPDFReport(combinedOptions(clients), onDocReady, fault)

generateCombinedClientsPDFReport(clients, onDocReady, fault) ==
  IF Len(clients) = 0
    THEN [NoDelivery EXCEPT !.thrown = <<"No clients provided for combined statement">>]
    ELSE generateClientPDFReport(combinedOptions(clients), onDocReady, fault)

\* ================================================================ state
VARIABLES
  inClients,   \* the { client, transactionsKES, transactionsUSD }[] a caller holds
  pdf,         \* the statement call made by the latest step, with its outcome
  csv,         \* the lines of the CSV file downloaded by the latest step
  toast,       \* the notices shown by the latest step
  \* --- client detail view (React state of ClientDetail)
  mounted,     \* the view is on screen (onBack not yet called)
  client, transactionsKES, transactionsUSD, summaryKES, summaryUSD,
  loading, submitting, isSavingInline, activeTab,
  showAddTransaction, showEditTransaction, editingTransaction,
  showPinModal, pinAction, pinInput,
  \* --- persistence collaborator and the handlers awaiting it
  db,          \* rows of client_transactions_kes / _usd of this client
  nextId,      \* next id / created_at the server hands out
  calls,       \* handler invocations suspended at an await
  \* --- reports view (React state of Reports) and its loads
  tables,      \* the clients and transactions tables the reports are drawn from
  now,         \* the instant new Date() gives: its local and its UTC calendar date
  selectedPeriod, customStartDate, customEndDate, reportsLoading,
  clientStats, topClients, monthlyTrends, selectedTopClientIds,
  exportingCombined,
  txCache,     \* window.__dinixReportTransactions
  reportCalls  \* loadReports invocations suspended at an await

ledgerVars == <<inClients>>
detailVars ==
  <<mounted, client, transactionsKES, transactionsUSD, summaryKES, summaryUSD,
    loading, submitting, isSavingInline, activeTab,
    showAddTransaction, showEditTransaction, editingTransaction,
    showPinModal, pinAction, pinInput, db, nextId, calls>>
reportVars ==
  <<tables, now, selectedPeriod, customStartDate, customEndDate, reportsLoading,
    clientStats, topClients, monthlyTrends, selectedTopClientIds,
    exportingCombined, txCache, reportCalls>>
vars == <<inClients, pdf, csv, toast, detailVars, reportVars>>

NoOptions ==
  [client |-> [client_name |-> <<>>, client_code |-> <<>>],
   transactionsKES |-> <<>>, transactionsUSD |-> <<>>,
   summaryKES |-> [receivable |-> 0, paid |-> 0, balance |-> 0],
   summaryUSD |-> [receivable |-> 0, paid |-> 0, balance |-> 0],
   reportType |-> "full"]

\* no statement call in the latest step
NoPdf == [op |-> "none", onDocReady |-> FALSE, nClients |-> 0,
          options |-> NoOptions, result |-> NoDelivery,
          fault |-> "", share |-> "none", shared |-> 0, saved |-> 0]

\* no CSV file in the latest step
NoCsv == <<>>

\* messages of errors the document library may throw ("" = no error)
Faults == {"", "jsPDF failure"}

\* what the Web Share API does with the file handed to it: canShare refuses
\* it, share() rejects, or share() resolves
ShareOutcomes == {"refused", "rejected", "shared"}

\* the callback with a catch block that only reports
shareOrSaveNoFallback(outcome, failureNotice) ==
  [shared |-> IF outcome = "shared" THEN 1 ELSE 0,
   save |-> IF outcome = "refused" THEN 1 ELSE 0,
   notices |-> IF outcome = "rejected" THEN {<<"error", failureNotice>>} ELSE {}]

\* async (doc, fileName) => { try { if (nav.canShare && nav.canShare(..))
\* await nav.share(..) else doc.save(fileName) } catch { toast.error(..);
\* doc.save(fileName) } }: the callback both views pass when sharing is
\* supported, each with its own notice.  The share sheet is modal, so the
\* callback is taken to its end within the step that starts it.
shareOrSave(outcome, failureNotice) ==
  [shared |-> IF outcome = "shared" THEN 1 ELSE 0,
   save |-> IF outcome \in {"refused", "rejected"} THEN 1 ELSE 0,
   notices |-> IF outcome = "rejected" THEN {<<"error", failureNotice>>} ELSE {}]

\* the record of a statement call of a view: the generator's result and what
\* the view's callback, if the generator invoked it, did with the document
viewDelivery(op, n, options, result, shareSupported, fault, outcome, failureNotice) ==
  LET ran == result.onDocReady = 1
      cb == shareOrSave(outcome, failureNotice)
  IN [op |-> op, onDocReady |-> shareSupported, nClients |-> n,
      options |-> options, result |-> result, fault |-> fault,
      share |-> IF ran THEN outcome ELSE "none",
      shared |-> IF ran THEN cb.shared ELSE 0,
      saved |-> result.save + (IF ran THEN cb.save ELSE 0)]

\* ------------------------------------------------ inputs of the pure part
\* Every way of handing at most MaxLen pool transactions to at most
\* MaxClients clients: txs is the flat list, own[i] = <<client index, currency>>.
Payload(n, txs, own) ==
  [c \in 1..n |->
     [client |-> ClientNo(c),
      transactionsKES |-> SelectIdx(txs, { i \in 1..Len(txs) : own[i] = <<c, "kes">> }),
      transactionsUSD |-> SelectIdx(txs, { i \in 1..Len(txs) : own[i] = <<c, "usd">> })]]

Payloads ==
  { Payload(x[1], x[2], x[3]) :
      x \in { y \in (0..MaxClients) \X SeqsUpTo(TxPool, MaxLen)
                     \X SeqsUpTo((1..MaxClients) \X {"kes", "usd"}, MaxLen) :
                /\ Len(y[2]) = Len(y[3])
                /\ \A i \in 1..Len(y[3]) : y[3][i][1] <= y[1] } }

\* ------------------------------------------------ client detail: values
MaxId == 2

NoRow ==
  [id |-> 0, created_at |-> 0, transaction_date |-> 0, description |-> <<>>,
   debit |-> 0, credit |-> 0]

NoClient == [client_name |-> <<>>, client_code |-> <<>>]

ZeroSummary == [receivable |-> 0, paid |-> 0, balance |-> 0]

NoPinAction == [type |-> "none", currency |-> "kes", transactionId |-> 0,
                transaction |-> NoRow]

correctPin == <<"2", "5", "8", "0">>

Digits == {"0", "1", "2", "3", "4", "5", "6", "7", "8", "9"}

\* e.target.value.replace(/\D/g, "")
onlyDigits(raw) == SelectSeq(raw, LAMBDA ch : ch \in Digits)

\* what the user may have in the PIN field (maxLength 4)
PinTyped == { <<"2", "5", "8", "0">>, <<"2", "a", "8", "0">> }

\* the fields of the add / edit forms
FormInputs ==
  [transaction_type : {"payment"}, amount : {4},
   transaction_date : {2}, description : {<<"r", "e", "n", "t">>}]

\* the fields of the inline quick-add row, as parsed by handleInlineAdd
InlineInputs ==
  { [date |-> d, description |-> x[1], credit |-> x[2], debit |-> x[3]] :
      d \in {1, 2},
      x \in { << <<"r", "e", "n", "t">>, 0, 4 >>,
              << <<"r", "e", "n", "t">>, 0, 0 >>, << <<" ">>, 4, 0 >> } }

\* newRow.description.trim()
trim(text) == SelectSeq(text, LAMBDA ch : ch # " ")

\* debit / credit of the form's transactionData
formDebit(form) ==
  IF form.transaction_type \in {"invoice", "charge", "expense"} THEN form.amount ELSE 0
formCredit(form) ==
  IF form.transaction_type \in {"payment", "refund", "credit"} THEN form.amount ELSE 0

RECURSIVE newestFirst(_)
\* .order("transaction_date", desc).order("created_at", desc)
newestFirst(rows) ==
  IF rows = {} THEN <<>>
  ELSE LET top == CHOOSE r \in rows : \A q \in rows :
                    \/ q.transaction_date < r.transaction_date
                    \/ /\ q.transaction_date = r.transaction_date
                       /\ q.created_at <= r.created_at
       IN <<top>> \o newestFirst(rows \ {top})

\* transactions.filter((t) => t.id !== transactionId)
withoutId(transactions, transactionId) ==
  SelectSeq(transactions, LAMBDA t : t.id # transactionId)

\* a handler suspended at an await.  kind: add (form), inline, delete, update
\* (edit form), load (loadClientData).  seen is the transactions list of the
\* handler's render (its closure); then says who awaits a load.
IdleCall ==
  [kind |-> "none", phase |-> "sent", cur |-> "kes", row |-> NoRow,
   seen |-> <<>>, resp |-> "none", data |-> NoRow, then |-> "",
   kesData |-> <<>>, usdData |-> <<>>]

LoadCall(then) == [IdleCall EXCEPT !.kind = "load", !.then = then]

currentTransactions == IF activeTab = "kes" THEN transactionsKES ELSE transactionsUSD

listOf(cur) == IF cur = "kes" THEN transactionsKES ELSE transactionsUSD

\* the mgCount memo of the view, shown on the mileage card
mgCountCard ==
  Cardinality({ i \in 1..Len(currentTransactions) :
                  mgTest(currentTransactions[i].description) })

currentSummary == IF activeTab = "kes" THEN summaryKES ELSE summaryUSD

RECURSIVE reduceNet(_)
\* .reduce((sum, t) => sum + Number(t.credit || 0) - Number(t.debit || 0), 0)
reduceNet(transactions) ==
  IF transactions = <<>> THEN 0
  ELSE reduceNet(SubSeq(transactions, 1, Len(transactions) - 1))
         + OrZero(transactions[Len(transactions)].credit)
         - OrZero(transactions[Len(transactions)].debit)

\* the rows from the top of the list down to the row
remainingTransactionsAbove(index) == SubSeq(currentTransactions, 1, index)

\* currentTransactions.slice(index) of the row at position index (from 1)
remainingTransactions(index) ==
  SubSeq(currentTransactions, index, Len(currentTransactions))

\* the balance cell of the row at position index, desktop table and mobile
\* cards alike
runningBalance(index) == reduceNet(remainingTransactions(index))

\* inserts asked for so far never exceed MaxId rows
RoomForInsert ==
  nextId + Cardinality({ c \in calls : c.kind \in {"add", "inline"} /\ c.phase = "sent" })
    <= MaxId

DetailIdle ==
  /\ mounted = FALSE /\ client = NoClient
  /\ transactionsKES = <<>> /\ transactionsUSD = <<>>
  /\ summaryKES = ZeroSummary /\ summaryUSD = ZeroSummary
  /\ loading = TRUE /\ submitting = FALSE /\ isSavingInline = FALSE
  /\ activeTab = "kes"
  /\ showAddTransaction = FALSE /\ showEditTransaction = FALSE
  /\ editingTransaction = NoRow
  /\ showPinModal = FALSE /\ pinAction = NoPinAction /\ pinInput = <<>>
  /\ db = [kes |-> {}, usd |-> {}] /\ nextId = 1 /\ calls = {}

\* Dates of the reports view are numbers month * 10 + day, ordered as the
\* strings YYYY-MM-DD are, with days 1..9: ReportToday is the 2nd day of
\* month 2.
ReportToday == 22

\* an instant at which the local and the UTC calendar date are the same
DayClock == [local |-> ReportToday, utc |-> ReportToday]

\* the empty string of a date input
NoDate == 0

\* no table read yet
NoTables == [clients |-> <<>>, kes |-> <<>>, usd |-> <<>>]

\* useState<ClientStats>({ ... 0 ... })
ZeroStats ==
  [totalClients |-> 0, activeClients |-> 0, inactiveClients |-> 0,
   totalBalanceKES |-> 0, totalBalanceUSD |-> 0, totalTransactions |-> 0]

\* the reports view before it is shown
ReportsIdle ==
  /\ tables = NoTables /\ now = DayClock
  /\ selectedPeriod = "last6" /\ reportsLoading = TRUE
  /\ customStartDate = NoDate /\ customEndDate = NoDate
  /\ clientStats = ZeroStats
  /\ topClients = <<>> /\ monthlyTrends = <<>>
  /\ selectedTopClientIds = {}
  /\ exportingCombined = FALSE
  /\ txCache = [kes |-> <<>>, usd |-> <<>>]
  /\ reportCalls = {}

InitLedger ==
  /\ inClients \in Payloads
  /\ pdf = NoPdf
  /\ csv = NoCsv
  /\ toast = {}
  /\ DetailIdle
  /\ ReportsIdle

\* A caller (the client detail view does this with its own lists) summarises
\* the lists of one client and asks for that client's statement.  The calls
\* are pure, so one call per behaviour covers every call on these inputs.
ClientStatement(c, reportType, onDocReady, fault) ==
  LET options == [client |-> inClients[c].client,
                  transactionsKES |-> inClients[c].transactionsKES,
                  transactionsUSD |-> inClients[c].transactionsUSD,
                  summaryKES |-> calculateSummary(inClients[c].transactionsKES),
                  summaryUSD |-> calculateSummary(inClients[c].transactionsUSD),
                  reportType |-> reportType]
  IN /\ pdf = NoPdf
     /\ LET result == generateClientPDFReport(options, onDocReady, fault)
        IN pdf' = [op |-> "client", onDocReady |-> onDocReady, nClients |-> 1,
                   options |-> options, result |-> result, fault |-> fault,
                   share |-> "none", shared |-> 0, saved |-> result.save]
     /\ toast' = {} /\ csv' = NoCsv
  /\ UNCHANGED <<ledgerVars, detailVars, reportVars>>

\* A caller asks for the combined statement of all the clients it holds.
CombinedStatement(onDocReady, fault) ==
  /\ pdf = NoPdf
  /\ LET result == generateCombinedClientsPDFReport(inClients, onDocReady, fault)
     IN pdf' = [op |-> "combined", onDocReady |-> onDocReady,
                nClients |-> Len(inClients),
                options |-> IF Len(inClients) = 0 THEN NoOptions
                                                  ELSE combinedOptions(inClients),
                result |-> result, fault |-> fault,
                share |-> "none", shared |-> 0, saved |-> result.save]
  /\ toast' = {} /\ csv' = NoCsv
  /\ UNCHANGED <<ledgerVars, detailVars, reportVars>>

NextLedger ==
  \/ \E c \in 1..Len(inClients), reportType \in ReportTypes,
        onDocReady \in BOOLEAN, fault \in Faults :
       ClientStatement(c, reportType, onDocReady, fault)
  \/ \E onDocReady \in BOOLEAN, fault \in Faults :
       CombinedStatement(onDocReady, fault)

SpecLedger == InitLedger /\ [][NextLedger]_vars

\* ======================================================== client detail
listVars == <<transactionsKES, transactionsUSD, summaryKES, summaryUSD>>
pinVars == <<showPinModal, pinAction, pinInput>>
editVars == <<showEditTransaction, editingTransaction>>
serverVars == <<db, nextId>>
flagVars == <<loading, submitting, isSavingInline>>
viewVars == <<mounted, client, listVars, flagVars, activeTab, showAddTransaction,
              editVars, pinVars>>

\* the view renders its controls (not the spinner, not "client not found")
Visible == mounted /\ ~loading /\ client # NoClient

\* a dialog is a full-screen layer above the page (fixed inset-0 z-50): the
\* tabs, the row buttons, the quick-add row and the statement menu beneath it
\* take no clicks while one is shown
Covered ==
  showAddTransaction \/ (showEditTransaction /\ editingTransaction # NoRow) \/ showPinModal

PageFree == Visible /\ ~Covered

\* a step that hands out no document
Quiet(notices) == toast' = notices /\ pdf' = NoPdf /\ csv' = NoCsv

\* a list setter without its calculateSummary
SetListOnly(cur, updatedTransactions) ==
  IF cur = "kes"
    THEN /\ transactionsKES' = updatedTransactions
         /\ UNCHANGED <<transactionsUSD, summaryKES, summaryUSD>>
    ELSE /\ transactionsUSD' = updatedTransactions
         /\ UNCHANGED <<transactionsKES, summaryKES, summaryUSD>>

\* setTransactionsKES / setTransactionsUSD with calculateSummary on the same list
SetList(cur, updatedTransactions) ==
  IF cur = "kes"
    THEN /\ transactionsKES' = updatedTransactions
         /\ summaryKES' = calculateSummary(updatedTransactions)
         /\ UNCHANGED <<transactionsUSD, summaryUSD>>
    ELSE /\ transactionsUSD' = updatedTransactions
         /\ summaryUSD' = calculateSummary(updatedTransactions)
         /\ UNCHANGED <<transactionsKES, summaryKES>>

InitDetail ==
  /\ inClients = <<>>
  /\ pdf = NoPdf
  /\ csv = NoCsv
  /\ toast = {}
  /\ mounted = TRUE /\ client = NoClient
  /\ transactionsKES = <<>> /\ transactionsUSD = <<>>
  /\ summaryKES = ZeroSummary /\ summaryUSD = ZeroSummary
  /\ loading = TRUE /\ submitting = FALSE /\ isSavingInline = FALSE
  /\ activeTab = "kes"
  /\ showAddTransaction = FALSE /\ showEditTransaction = FALSE
  /\ editingTransaction = NoRow
  /\ showPinModal = FALSE /\ pinAction = NoPinAction /\ pinInput = <<>>
  /\ db = [kes |-> {}, usd |-> {}] /\ nextId = 1
  /\ calls = {LoadCall("mount")}
  /\ ReportsIdle

\* ------------------------------------------------------------- UI events
SetActiveTab(tab) ==
  /\ PageFree /\ tab # activeTab
  /\ activeTab' = tab
  /\ Quiet({})
  /\ UNCHANGED <<inClients, reportVars, mounted, client, listVars, flagVars, showAddTransaction,
                 editVars, pinVars, serverVars, calls>>

OpenAddTransaction ==
  /\ PageFree /\ ~showAddTransaction
  /\ showAddTransaction' = TRUE
  /\ Quiet({})
  /\ UNCHANGED <<inClients, reportVars, mounted, client, listVars, flagVars, activeTab,
                 editVars, pinVars, serverVars, calls>>

CloseAddTransaction ==
  /\ Visible /\ showAddTransaction
  /\ showAddTransaction' = FALSE
  /\ Quiet({})
  /\ UNCHANGED <<inClients, reportVars, mounted, client, listVars, flagVars, activeTab,
                 editVars, pinVars, serverVars, calls>>

\* handleAddTransaction up to its await
handleAddTransaction(form, currency) ==
  /\ Visible /\ showAddTransaction /\ RoomForInsert
  /\ IF submitting
       THEN UNCHANGED <<submitting, calls>>
       ELSE /\ submitting' = TRUE
            /\ calls' = calls \cup
                 {[IdleCall EXCEPT
                     !.kind = "add", !.cur = currency, !.seen = listOf(currency),
                     !.row = [NoRow EXCEPT !.transaction_date = form.transaction_date,
                                           !.description = form.description,
                                           !.debit = formDebit(form),
                                           !.credit = formCredit(form)]]}
  /\ Quiet({})
  /\ UNCHANGED <<inClients, reportVars, mounted, client, listVars, loading, isSavingInline,
                 activeTab, showAddTransaction, editVars, pinVars, serverVars>>

\* handleInlineAdd up to its await (the row is rendered only under a
\* non-empty list, its controls are disabled while isSavingInline)
handleInlineAdd(newRow) ==
  /\ PageFree /\ Len(currentTransactions) > 0 /\ ~isSavingInline /\ RoomForInsert
  /\ IF trim(newRow.description) = <<>> \/ (newRow.credit = 0 /\ newRow.debit = 0)
       THEN UNCHANGED <<isSavingInline, calls>>
       ELSE /\ isSavingInline' = TRUE
            /\ calls' = calls \cup
                 {[IdleCall EXCEPT
                     !.kind = "inline", !.cur = activeTab, !.seen = currentTransactions,
                     !.row = [NoRow EXCEPT !.transaction_date = newRow.date,
                                           !.description = trim(newRow.description),
                                           !.debit = newRow.debit,
                                           !.credit = newRow.credit]]}
  /\ Quiet({})
  /\ UNCHANGED <<inClients, reportVars, mounted, client, listVars, loading, submitting,
                 activeTab, showAddTransaction, editVars, pinVars, serverVars>>

\* the edit / delete buttons of row i: handlePinProtectedAction
handlePinProtectedAction(action, i) ==
  /\ PageFree /\ i \in 1..Len(currentTransactions)
  /\ pinAction' =
       IF action = "edit"
         THEN [type |-> "edit", currency |-> activeTab, transactionId |-> 0,
               transaction |-> currentTransactions[i]]
         ELSE [type |-> "delete", currency |-> activeTab,
               transactionId |-> currentTransactions[i].id, transaction |-> NoRow]
  /\ showPinModal' = TRUE
  /\ pinInput' = <<>>
  /\ Quiet({})
  /\ UNCHANGED <<inClients, reportVars, mounted, client, listVars, flagVars, activeTab,
                 showAddTransaction, editVars, serverVars, calls>>

TypePin(raw) ==
  /\ Visible /\ showPinModal
  /\ pinInput' = onlyDigits(raw)
  /\ pinInput' # pinInput
  /\ Quiet({})
  /\ UNCHANGED <<inClients, reportVars, mounted, client, listVars, flagVars, activeTab,
                 showAddTransaction, editVars, showPinModal, pinAction,
                 serverVars, calls>>

CancelPin ==
  /\ Visible /\ showPinModal
  /\ showPinModal' = FALSE /\ pinAction' = NoPinAction /\ pinInput' = <<>>
  /\ Quiet({})
  /\ UNCHANGED <<inClients, reportVars, mounted, client, listVars, flagVars, activeTab,
                 showAddTransaction, editVars, serverVars, calls>>

\* verifyPinAndExecute accepting whatever non-empty PIN was typed
verifyPinAndExecuteAnyPin ==
  /\ Visible /\ showPinModal
  /\ IF pinInput = <<>>
       THEN /\ pinInput' = <<>>
            /\ Quiet({<<"error", "Incorrect PIN!">>})
            /\ UNCHANGED <<showPinModal, pinAction, submitting, calls, editVars>>
       ELSE /\ showPinModal' = FALSE
            /\ pinInput' = <<>>
            /\ Quiet({})
            /\ CASE pinAction.type = "delete" ->
                      IF submitting
                        THEN /\ pinAction' = NoPinAction
                             /\ UNCHANGED <<submitting, calls, editVars>>
                        ELSE /\ submitting' = TRUE
                             /\ calls' = calls \cup
                                  {[IdleCall EXCEPT
                                      !.kind = "delete", !.cur = pinAction.currency,
                                      !.seen = listOf(pinAction.currency),
                                      !.row = [NoRow EXCEPT !.id = pinAction.transactionId]]}
                             /\ UNCHANGED <<pinAction, editVars>>
                 [] pinAction.type = "edit" ->
                      /\ editingTransaction' = pinAction.transaction
                      /\ showEditTransaction' = TRUE
                      /\ pinAction' = NoPinAction
                      /\ UNCHANGED <<submitting, calls>>
                 [] OTHER -> UNCHANGED <<pinAction, submitting, calls, editVars>>
  /\ UNCHANGED <<inClients, reportVars, mounted, client, listVars, loading, isSavingInline,
                 activeTab, showAddTransaction, serverVars>>

\* verifyPinAndExecute, with executeDelete up to its await
verifyPinAndExecute ==
  /\ Visible /\ showPinModal
  /\ IF pinInput # correctPin
       THEN /\ pinInput' = <<>>
            /\ Quiet({<<"error", "Incorrect PIN!">>})
            /\ UNCHANGED <<showPinModal, pinAction, submitting, calls, editVars>>
       ELSE /\ showPinModal' = FALSE
            /\ pinInput' = <<>>
            /\ Quiet({})
            /\ CASE pinAction.type = "delete" ->
                      IF submitting
                        THEN /\ pinAction' = NoPinAction
                             /\ UNCHANGED <<submitting, calls, editVars>>
                        ELSE /\ submitting' = TRUE
                             /\ calls' = calls \cup
                                  {[IdleCall EXCEPT
                                      !.kind = "delete", !.cur = pinAction.currency,
                                      !.seen = listOf(pinAction.currency),
                                      !.row = [NoRow EXCEPT !.id = pinAction.transactionId]]}
                             /\ UNCHANGED <<pinAction, editVars>>
                 [] pinAction.type = "edit" ->
                      /\ editingTransaction' = pinAction.transaction
                      /\ showEditTransaction' = TRUE
                      /\ pinAction' = NoPinAction
                      /\ UNCHANGED <<submitting, calls>>
                 [] OTHER -> UNCHANGED <<pinAction, submitting, calls, editVars>>
  /\ UNCHANGED <<inClients, reportVars, mounted, client, listVars, loading, isSavingInline,
                 activeTab, showAddTransaction, serverVars>>

CancelEdit ==
  /\ Visible /\ showEditTransaction /\ editingTransaction # NoRow
  /\ showEditTransaction' = FALSE /\ editingTransaction' = NoRow
  /\ Quiet({})
  /\ UNCHANGED <<inClients, reportVars, mounted, client, listVars, flagVars, activeTab,
                 showAddTransaction, pinVars, serverVars, calls>>

\* handleEditTransaction up to its first await
handleEditTransaction(form) ==
  /\ Visible /\ showEditTransaction /\ editingTransaction # NoRow
  /\ IF submitting
       THEN UNCHANGED <<submitting, calls>>
       ELSE /\ submitting' = TRUE
            /\ calls' = calls \cup
                 {[IdleCall EXCEPT
                     !.kind = "update", !.cur = activeTab,
                     !.row = [editingTransaction EXCEPT
                                !.transaction_date = form.transaction_date,
                                !.description = form.description,
                                !.debit = formDebit(form),
                                !.credit = formCredit(form)]]}
  /\ Quiet({})
  /\ UNCHANGED <<inClients, reportVars, mounted, client, listVars, loading, isSavingInline,
                 activeTab, showAddTransaction, editVars, pinVars, serverVars>>

\* the three buttons of the statement menu
PickerReportTypes == {"full", "kes-only", "usd-only"}

\* generatePDFReport: the statement of the lists and summaries on screen
generatePDFReport(reportType, shareSupported, fault, outcome) ==
  /\ PageFree
  /\ LET options == [client |-> client,
                     transactionsKES |-> transactionsKES,
                     transactionsUSD |-> transactionsUSD,
                     summaryKES |-> summaryKES, summaryUSD |-> summaryUSD,
                     reportType |-> reportType]
         result == generateClientPDFReport(options, shareSupported, fault)
         failureNotice == "Failed to share statement. Downloading instead."
     IN /\ pdf' = viewDelivery("client", 1, options, result, shareSupported,
                               fault, outcome, failureNotice)
        /\ csv' = NoCsv
        /\ toast' = IF result.thrown # <<>>
                      THEN {<<"error", "Failed to generate PDF report">>}
                      ELSE IF result.onDocReady = 1
                      THEN shareOrSave(outcome, failureNotice).notices
                      ELSE {}
  /\ UNCHANGED <<inClients, reportVars, detailVars>>

\* ----------------------------------------------- persistence collaborator
Served(c, resp, data) == [c EXCEPT !.phase = "served", !.resp = resp, !.data = data]

\* the server handles an insert: the row gets its id and created_at
ServeInsert(c, ok) ==
  /\ c \in calls /\ c.kind \in {"add", "inline"} /\ c.phase = "sent"
  /\ IF ok
       THEN LET row == [c.row EXCEPT !.id = nextId, !.created_at = nextId]
            IN /\ db' = [db EXCEPT ![c.cur] = @ \cup {row}]
               /\ nextId' = nextId + 1
               /\ calls' = (calls \ {c}) \cup {Served(c, "ok", row)}
       ELSE /\ calls' = (calls \ {c}) \cup {Served(c, "error", NoRow)}
            /\ UNCHANGED serverVars
  /\ Quiet({})
  /\ UNCHANGED <<inClients, reportVars, viewVars>>

\* the server handles a delete by id
ServeDelete(c, ok) ==
  /\ c \in calls /\ c.kind = "delete" /\ c.phase = "sent"
  /\ IF ok
       THEN /\ db' = [db EXCEPT ![c.cur] = { r \in @ : r.id # c.row.id }]
            /\ calls' = (calls \ {c}) \cup {Served(c, "ok", NoRow)}
       ELSE /\ calls' = (calls \ {c}) \cup {Served(c, "error", NoRow)}
            /\ UNCHANGED db
  /\ UNCHANGED nextId
  /\ Quiet({})
  /\ UNCHANGED <<inClients, reportVars, viewVars>>

\* the server handles an update by id: "ok" returns the updated row,
\* "blocked" returns no row and no error, "error" returns an error
ServeUpdate(c, outcome) ==
  /\ c \in calls /\ c.kind = "update" /\ c.phase = "sent"
  /\ IF outcome = "ok"
       THEN /\ \E r \in db[c.cur] : r.id = c.row.id
            /\ db' = [db EXCEPT ![c.cur] = { r \in @ : r.id # c.row.id } \cup {c.row}]
       ELSE UNCHANGED db
  /\ calls' = (calls \ {c}) \cup {Served(c, outcome, NoRow)}
  /\ UNCHANGED nextId
  /\ Quiet({})
  /\ UNCHANGED <<inClients, reportVars, viewVars>>

\* what Promise.all of the three fetches of loadClientData can resolve to
FetchOutcomes == {"ok", "client error", "client missing", "kes error", "usd error"}

\* the server answers the three fetches of one loadClientData; they leave
\* together and are answered from one snapshot of the tables.  A fetch that
\* fails has no data, the others carry theirs
ServeFetch(c, outcome) ==
  /\ c \in calls /\ c.kind = "load" /\ c.phase = "sent"
  /\ calls' = (calls \ {c}) \cup
       {[c EXCEPT !.phase = "served", !.resp = outcome,
                  !.kesData = IF outcome = "kes error" THEN <<>> ELSE newestFirst(db.kes),
                  !.usdData = IF outcome = "usd error" THEN <<>> ELSE newestFirst(db.usd)]}
  /\ Quiet({})
  /\ UNCHANGED <<inClients, reportVars, viewVars, serverVars>>

\* --------------------------------------------- handlers after their await
\* a catch block that reports and leaves the view on screen
StayMounted ==
  /\ loading' = FALSE
  /\ UNCHANGED <<mounted, client, listVars, submitting, isSavingInline, activeTab,
                 showAddTransaction, editVars, pinVars>>

\* onBack(): the parent stops rendering the view and its state is dropped;
\* handlers still suspended at an await run on, their state updates lost
Unmount ==
  /\ mounted' = FALSE /\ client' = NoClient
  /\ transactionsKES' = <<>> /\ transactionsUSD' = <<>>
  /\ summaryKES' = ZeroSummary /\ summaryUSD' = ZeroSummary
  /\ loading' = TRUE /\ submitting' = FALSE /\ isSavingInline' = FALSE
  /\ activeTab' = "kes"
  /\ showAddTransaction' = FALSE /\ showEditTransaction' = FALSE
  /\ editingTransaction' = NoRow
  /\ showPinModal' = FALSE /\ pinAction' = NoPinAction /\ pinInput' = <<>>

\* handleAddTransaction from the insert's response on
AddReturns(c) ==
  /\ c \in calls /\ c.kind = "add" /\ c.phase = "served"
  /\ calls' = calls \ {c}
  /\ Quiet(IF c.resp = "ok"
             THEN {<<"success", "Transaction added successfully!">>}
             ELSE {<<"error", "Failed to add transaction. Please try again.">>})
  /\ IF mounted
       THEN /\ submitting' = FALSE
            /\ IF c.resp = "ok"
                 THEN /\ SetList(c.cur, <<c.data>> \o c.seen)
                      /\ showAddTransaction' = FALSE
                 ELSE UNCHANGED <<listVars, showAddTransaction>>
       ELSE UNCHANGED <<submitting, listVars, showAddTransaction>>
  /\ UNCHANGED <<inClients, reportVars, mounted, client, loading, isSavingInline, activeTab,
                 editVars, pinVars, serverVars>>

\* handleInlineAdd leaving isSavingInline set when the insert failed
InlineReturnsStaysBusy(c) ==
  /\ c \in calls /\ c.kind = "inline" /\ c.phase = "served"
  /\ calls' = calls \ {c}
  /\ Quiet(IF c.resp = "ok"
             THEN {<<"success", "Transaction added successfully!">>}
             ELSE {<<"error", "Failed to add transaction. Please try again.">>})
  /\ IF mounted /\ c.resp = "ok"
       THEN /\ isSavingInline' = FALSE
            /\ SetList(c.cur, <<c.data>> \o c.seen)
       ELSE UNCHANGED <<isSavingInline, listVars>>
  /\ UNCHANGED <<inClients, reportVars, mounted, client, loading, submitting, activeTab,
                 showAddTransaction, editVars, pinVars, serverVars>>

\* handleInlineAdd from the insert's response on
InlineReturns(c) ==
  /\ c \in calls /\ c.kind = "inline" /\ c.phase = "served"
  /\ calls' = calls \ {c}
  /\ Quiet(IF c.resp = "ok"
             THEN {<<"success", "Transaction added successfully!">>}
             ELSE {<<"error", "Failed to add transaction. Please try again.">>})
  /\ IF mounted
       THEN /\ isSavingInline' = FALSE
            /\ IF c.resp = "ok"
                 THEN SetList(c.cur, <<c.data>> \o c.seen)
                 ELSE UNCHANGED listVars
       ELSE UNCHANGED <<isSavingInline, listVars>>
  /\ UNCHANGED <<inClients, reportVars, mounted, client, loading, submitting, activeTab,
                 showAddTransaction, editVars, pinVars, serverVars>>

\* executeDelete from the delete's response on, then the rest of
\* verifyPinAndExecute (setPinAction(null))
DeleteReturns(c) ==
  /\ c \in calls /\ c.kind = "delete" /\ c.phase = "served"
  /\ calls' = calls \ {c}
  /\ Quiet(IF c.resp = "ok"
             THEN {<<"success", "Transaction deleted successfully!">>}
             ELSE {<<"error", "Failed to delete transaction.">>})
  /\ IF mounted
       THEN /\ submitting' = FALSE
            /\ pinAction' = NoPinAction
            /\ IF c.resp = "ok"
                 THEN SetList(c.cur, withoutId(c.seen, c.row.id))
                 ELSE UNCHANGED listVars
       ELSE UNCHANGED <<submitting, pinAction, listVars>>
  /\ UNCHANGED <<inClients, reportVars, mounted, client, loading, isSavingInline, activeTab,
                 showAddTransaction, editVars, showPinModal, pinInput,
                 serverVars>>

\* handleEditTransaction not looking at the number of rows returned
UpdateReturnsZeroRowsOk(c) ==
  /\ c \in calls /\ c.kind = "update" /\ c.phase = "served"
  /\ IF c.resp \in {"ok", "blocked"}
       THEN /\ calls' = (calls \ {c}) \cup {LoadCall("edit")}
            /\ Quiet({})
            /\ IF mounted
                 THEN /\ showEditTransaction' = FALSE
                      /\ editingTransaction' = NoRow
                      /\ loading' = TRUE
                 ELSE UNCHANGED <<editVars, loading>>
            /\ UNCHANGED submitting
       ELSE /\ calls' = calls \ {c}
            /\ submitting' = FALSE
            /\ Quiet(IF c.resp = "blocked"
                       THEN {<<"error", "Update blocked by database policy.">>}
                       ELSE {<<"error", "Failed to update transaction. Please try again.">>})
            /\ UNCHANGED <<editVars, loading>>
  /\ UNCHANGED <<inClients, reportVars, mounted, client, listVars, isSavingInline, activeTab,
                 showAddTransaction, pinVars, serverVars>>

\* handleEditTransaction from the update's response to its second await
\* (loadClientData up to Promise.all), or to its end on a failure
UpdateReturns(c) ==
  /\ c \in calls /\ c.kind = "update" /\ c.phase = "served"
  /\ IF c.resp = "ok"
       THEN /\ calls' = (calls \ {c}) \cup {LoadCall("edit")}
            /\ Quiet({})
            /\ IF mounted
                 THEN /\ showEditTransaction' = FALSE
                      /\ editingTransaction' = NoRow
                      /\ loading' = TRUE
                 ELSE UNCHANGED <<editVars, loading>>
            /\ UNCHANGED submitting
       ELSE /\ calls' = calls \ {c}
            /\ submitting' = FALSE
            /\ Quiet(IF c.resp = "blocked"
                       THEN {<<"error", "Update blocked by database policy.">>}
                       ELSE {<<"error", "Failed to update transaction. Please try again.">>})
            /\ UNCHANGED <<editVars, loading>>
  /\ UNCHANGED <<inClients, reportVars, mounted, client, listVars, isSavingInline, activeTab,
                 showAddTransaction, pinVars, serverVars>>

\* loadClientData from the return of Promise.all on, then the rest of
\* handleEditTransaction when that handler awaited the load
LoadReturns(c) ==
  /\ c \in calls /\ c.kind = "load" /\ c.phase = "served"
  /\ calls' = calls \ {c}
  /\ LET after == IF c.then = "edit"
                    THEN {<<"success", "Transaction updated successfully!">>} ELSE {}
     IN Quiet(after \cup
              (CASE c.resp = "ok" -> {}
                 [] c.resp = "client missing" -> {<<"error", "Client not found">>}
                 [] OTHER -> {<<"error", "Failed to load client">>}))
  /\ IF ~mounted
       THEN UNCHANGED viewVars
       ELSE IF c.resp # "ok"
       THEN Unmount
       ELSE /\ client' = ClientNo(1)
            /\ transactionsKES' = c.kesData
            /\ transactionsUSD' = c.usdData
            /\ summaryKES' = calculateSummary(c.kesData)
            /\ summaryUSD' = calculateSummary(c.usdData)
            /\ loading' = FALSE
            /\ submitting' = IF c.then = "edit" THEN FALSE ELSE submitting
            /\ UNCHANGED <<mounted, isSavingInline, activeTab, showAddTransaction,
                           editVars, pinVars>>
  /\ UNCHANGED <<inClients, reportVars, serverVars>>

\* what the user can do in the view
ViewEvent ==
  \/ \E tab \in {"kes", "usd"} : SetActiveTab(tab)
  \/ OpenAddTransaction
  \/ CloseAddTransaction
  \/ \E form \in FormInputs, currency \in {"kes", "usd"} :
       handleAddTransaction(form, currency)
  \/ \E newRow \in InlineInputs : handleInlineAdd(newRow)
  \/ \E action \in {"edit", "delete"}, i \in 1..MaxId :
       handlePinProtectedAction(action, i)
  \/ \E raw \in PinTyped : TypePin(raw)
  \/ CancelPin
  \/ verifyPinAndExecute
  \/ CancelEdit
  \/ \E form \in FormInputs : handleEditTransaction(form)

\* a suspended handler resumes with the response of its call
Resume ==
  \/ \E c \in calls : AddReturns(c)
  \/ \E c \in calls : InlineReturns(c)
  \/ \E c \in calls : DeleteReturns(c)
  \/ \E c \in calls : UpdateReturns(c)
  \/ \E c \in calls : LoadReturns(c)

\* the persistence collaborator answers a call, with any outcome
Serve ==
  \/ \E c \in calls, ok \in BOOLEAN : ServeInsert(c, ok)
  \/ \E c \in calls, ok \in BOOLEAN : ServeDelete(c, ok)
  \/ \E c \in calls, outcome \in {"ok", "blocked", "error"} : ServeUpdate(c, outcome)
  \/ \E c \in calls, outcome \in FetchOutcomes : ServeFetch(c, outcome)

\* the persistence collaborator answers a call successfully
ServeOk ==
  \/ \E c \in calls : ServeInsert(c, TRUE)
  \/ \E c \in calls : ServeDelete(c, TRUE)
  \/ \E c \in calls : ServeUpdate(c, "ok")
  \/ \E c \in calls : ServeFetch(c, "ok")

\* the view against a persistence collaborator that may fail
NextDetail == ViewEvent \/ Serve \/ Resume

SpecDetail == InitDetail /\ [][NextDetail]_vars

\* the view with its statements, against a persistence collaborator that
\* answers every call successfully
NextStatement ==
  \/ ViewEvent
  \/ ServeOk
  \/ Resume
  \/ \E reportType \in PickerReportTypes, shareSupported \in BOOLEAN,
        fault \in Faults, outcome \in ShareOutcomes :
       generatePDFReport(reportType, shareSupported, fault, outcome)

SpecStatement == InitDetail /\ [][NextStatement]_vars

\* =========================================================== reports view

UsdToKes == 130
TopLimit == 10

\* transaction_date.substring(0, 7)
monthOf(date) == date \div 10

ReportPeriods == {"current", "last6", "custom"}

\* the values typed into the custom date inputs (NoDate clears the input)
CustomDates == {NoDate, 11, 22}

\* the instants the view may be used at: by day; in the first hours of the
\* 1st of month 2 east of Greenwich, when UTC is still in month 1; in the
\* first hours of the 2nd
Clocks == {DayClock, [local |-> 21, utc |-> 19], [local |-> 22, utc |-> 21]}

\* today.toISOString().split("T")[0]
toISODate(instant) == instant.utc

\* `${today.getFullYear()}-${String(today.getMonth() + 1).padStart(2, "0")}-01`
firstOfLocalMonth(instant) == monthOf(instant.local) * 10 + 1

\* getDateRange for the periods "current", "last6" and "custom"
getDateRange(period, customStart, customEnd) ==
  CASE period = "current" ->
         [startDate |-> firstOfLocalMonth(now), endDate |-> toISODate(now)]
    [] period = "last6" ->
         [startDate |-> toISODate(now) - 6 * 10, endDate |-> toISODate(now)]
    [] OTHER ->
         [startDate |-> customStart, endDate |-> customEnd]

\* a row of the clients table as loadReports selects it
ClientRow(i, status) == [id |-> i, status |-> status]

\* a row of a transactions table joined to its client (clients!inner)
ReportRow(i, d, debit, credit) ==
  [client_id |-> i, client_name |-> ClientNo(i).client_name,
   client_code |-> ClientNo(i).client_code,
   transaction_date |-> d, description |-> <<"r", "e", "n", "t">>,
   debit |-> debit, credit |-> credit]

\* client 1 has one KES row before the current month, every other client one
\* KES row in it, client 2 also an older USD row
SmallTables ==
  [clients |-> [i \in 1..MaxClients |->
                  ClientRow(i, IF i = 1 THEN "active" ELSE "inactive")],
   kes |-> [i \in 1..MaxClients |-> ReportRow(i, IF i = 1 THEN 11 ELSE 22, 1, 3 + i)],
   usd |-> << ReportRow(2, 11, 0, 1) >>]

\* one client more than the top-clients list takes, with equal and unequal
\* composites and two USD rows that move a client up and down, the second
\* one alone in its month
WideTables ==
  [clients |-> [i \in 1..(TopLimit + 1) |-> ClientRow(i, "active")],
   kes |-> [i \in 1..(TopLimit + 1) |->
              ReportRow(i, IF i % 2 = 0 THEN 22 ELSE 11, 0, (i * 3) % 7)],
   usd |-> << ReportRow(TopLimit + 1, 22, 0, 1), ReportRow(3, 5, 1, 0) >>]

\* five clients, three of them active, with twelve transactions netting to
\* KES 10000 and USD 250
BookTables ==
  [clients |-> [i \in 1..5 |-> ClientRow(i, IF i <= 3 THEN "active" ELSE "inactive")],
   kes |-> [n \in 1..10 |->
              IF n <= 5 THEN ReportRow(n, 11, 200, 1200)
                        ELSE ReportRow(n - 5, 22, 0, 1000)],
   usd |-> << ReportRow(1, 11, 0, 200), ReportRow(2, 22, 0, 50) >>]

\* what the persistence collaborator may hold
ReportTables == {SmallTables, WideTables, BookTables}

\* .gte("transaction_date", startDate).lte("transaction_date", endDate)
inRange(rows, range) ==
  SelectSeq(rows, LAMBDA t : /\ t.transaction_date >= range.startDate
                             /\ t.transaction_date <= range.endDate)

RECURSIVE netOf(_)
\* sum of (t.credit || 0) - (t.debit || 0)
netOf(rows) ==
  IF rows = <<>> THEN 0
  ELSE OrZero(Head(rows).credit) - OrZero(Head(rows).debit) + netOf(Tail(rows))

\* the object passed to setClientStats
clientStatsOf(clients, kes, usd) ==
  LET activeClients == Len(SelectSeq(clients, LAMBDA c : c.status = "active"))
      totalClients == Len(clients)
  IN [totalClients |-> totalClients,
      activeClients |-> activeClients,
      inactiveClients |-> totalClients - activeClients,
      totalBalanceKES |-> netOf(kes),
      totalBalanceUSD |-> netOf(usd),
      totalTransactions |-> Len(kes) + Len(usd)]

RECURSIVE firstSeen(_, _)
\* the keys of clientMap in insertion order, each with the row that set it
firstSeen(rows, have) ==
  IF rows = <<>> THEN <<>>
  ELSE IF Head(rows).client_id \in have THEN firstSeen(Tail(rows), have)
  ELSE <<Head(rows)>> \o firstSeen(Tail(rows), have \cup {Head(rows).client_id})

ofClient(rows, clientId) == SelectSeq(rows, LAMBDA t : t.client_id = clientId)

\* the map's values with the USD rows left out of transaction_count
clientMapValuesKesCount(kes, usd) ==
  LET first == firstSeen(kes \o usd, {})
  IN [i \in 1..Len(first) |->
        [client_id |-> first[i].client_id,
         client_name |-> first[i].client_name,
         client_code |-> first[i].client_code,
         total_balance_kes |-> netOf(ofClient(kes, first[i].client_id)),
         total_balance_usd |-> netOf(ofClient(usd, first[i].client_id)),
         transaction_count |-> Len(ofClient(kes, first[i].client_id))]]

\* Array.from(clientMap.values())
clientMapValues(kes, usd) ==
  LET first == firstSeen(kes \o usd, {})
  IN [i \in 1..Len(first) |->
        [client_id |-> first[i].client_id,
         client_name |-> first[i].client_name,
         client_code |-> first[i].client_code,
         total_balance_kes |-> netOf(ofClient(kes, first[i].client_id)),
         total_balance_usd |-> netOf(ofClient(usd, first[i].client_id)),
         transaction_count |-> Len(ofClient(kes, first[i].client_id))
                                 + Len(ofClient(usd, first[i].client_id))]]

roughTotal(c) == c.total_balance_kes + c.total_balance_usd * UsdToKes

RECURSIVE sortByTotal(_)
\* .sort((a, b) => bTotal - aTotal): descending, ties in input order
sortByTotal(cs) ==
  IF cs = <<>> THEN <<>>
  ELSE LET n == Len(cs)
           front == sortByTotal(SubSeq(cs, 1, n - 1))
           k == Cardinality({ i \in 1..Len(front) :
                                roughTotal(front[i]) >= roughTotal(cs[n]) })
       IN SubSeq(front, 1, k) \o <<cs[n]>> \o SubSeq(front, k + 1, Len(front))

\* the first ten of the map's values, taken before they are sorted
topClientsListSliceFirst(kes, usd) ==
  LET values == clientMapValues(kes, usd)
  IN sortByTotal(SubSeq(values, 1, IF Len(values) < TopLimit THEN Len(values)
                                                             ELSE TopLimit))

\* topClientsList
topClientsList(kes, usd) ==
  LET sorted == sortByTotal(clientMapValues(kes, usd))
  IN SubSeq(sorted, 1, IF Len(sorted) < TopLimit THEN Len(sorted) ELSE TopLimit)

RECURSIVE firstMonths(_, _)
\* the keys of monthlyMap in insertion order
firstMonths(rows, have) ==
  IF rows = <<>> THEN <<>>
  ELSE IF monthOf(Head(rows).transaction_date) \in have
         THEN firstMonths(Tail(rows), have)
  ELSE <<monthOf(Head(rows).transaction_date)>>
         \o firstMonths(Tail(rows), have \cup {monthOf(Head(rows).transaction_date)})

ofMonth(rows, month) == SelectSeq(rows, LAMBDA t : monthOf(t.transaction_date) = month)

\* Array.from(monthlyMap.values())
monthlyMapValues(kes, usd) ==
  LET months == firstMonths(kes \o usd, {})
  IN [i \in 1..Len(months) |->
        [month |-> months[i],
         transactions_kes |-> Len(ofMonth(kes, months[i])),
         transactions_usd |-> Len(ofMonth(usd, months[i])),
         balance_kes |-> netOf(ofMonth(kes, months[i])),
         balance_usd |-> netOf(ofMonth(usd, months[i]))]]

RECURSIVE sortByMonth(_)
\* .sort((a, b) => a.month.localeCompare(b.month)): ascending
sortByMonth(ms) ==
  IF ms = <<>> THEN <<>>
  ELSE LET n == Len(ms)
           front == sortByMonth(SubSeq(ms, 1, n - 1))
           k == Cardinality({ i \in 1..Len(front) : front[i].month <= ms[n].month })
       IN SubSeq(front, 1, k) \o <<ms[n]>> \o SubSeq(front, k + 1, Len(front))

\* the buckets of the KES transactions alone
trendsKesOnly(kes, usd) == sortByMonth(monthlyMapValues(kes, <<>>))

\* trends
trends(kes, usd) == sortByMonth(monthlyMapValues(kes, usd))

\* a loadReports invocation suspended at its awaits; left says that the view
\* which started it has since been taken off the screen
ReportLoad(range) ==
  [phase |-> "sent", range |-> range, resp |-> "none",
   clients |-> <<>>, kes |-> <<>>, usd |-> <<>>, left |-> FALSE]

\* what callers other than the reports view may hand to the combiner
DirectClients == { <<>>, Payload(1, <<Entry(1, <<>>, 3, 0)>>, << <<1, "kes">> >>) }

\* what loadReports sets
reportDataVars == <<clientStats, topClients, monthlyTrends, txCache>>

InitReports ==
  /\ inClients \in DirectClients
  /\ pdf = NoPdf
  /\ toast = {}
  /\ csv = NoCsv
  /\ DetailIdle
  /\ tables = SmallTables /\ now = DayClock
  /\ selectedPeriod = "last6" /\ reportsLoading = TRUE
  /\ customStartDate = NoDate /\ customEndDate = NoDate
  /\ clientStats = ZeroStats
  /\ topClients = <<>> /\ monthlyTrends = <<>>
  /\ selectedTopClientIds = {}
  /\ exportingCombined = FALSE
  /\ txCache = [kes |-> <<>>, usd |-> <<>>]
  /\ reportCalls = {ReportLoad(getDateRange("last6", NoDate, NoDate))}

\* loadReports without its check of the custom dates
loadReportsUnguarded(period, customStart, customEnd) ==
  /\ reportsLoading' = TRUE
  /\ reportCalls' = reportCalls \cup
       {ReportLoad(getDateRange(period, customStart, customEnd))}

\* loadReports up to its first await, as the effect runs it after a render
\* with these values of selectedPeriod, customStartDate and customEndDate
loadReports(period, customStart, customEnd) ==
  IF period = "custom" /\ (customStart = NoDate \/ customEnd = NoDate)
    THEN UNCHANGED <<reportsLoading, reportCalls>>
    ELSE /\ reportsLoading' = TRUE
         /\ reportCalls' = reportCalls \cup
              {ReportLoad(getDateRange(period, customStart, customEnd))}

\* a period button: setSelectedPeriod, then the effect runs loadReports
SetSelectedPeriod(period) ==
  /\ ~reportsLoading /\ period # selectedPeriod
  /\ selectedPeriod' = period
  /\ loadReports(period, customStartDate, customEndDate)
  /\ Quiet({})
  /\ UNCHANGED <<inClients, detailVars, tables, now, customStartDate, customEndDate,
                 reportDataVars, selectedTopClientIds, exportingCombined>>

\* the start date input, shown under the custom period
SetCustomStartDate(date) ==
  /\ ~reportsLoading /\ selectedPeriod = "custom" /\ date # customStartDate
  /\ customStartDate' = date
  /\ loadReports(selectedPeriod, date, customEndDate)
  /\ Quiet({})
  /\ UNCHANGED <<inClients, detailVars, tables, now, selectedPeriod, customEndDate,
                 reportDataVars, selectedTopClientIds, exportingCombined>>

\* the end date input, shown under the custom period
SetCustomEndDate(date) ==
  /\ ~reportsLoading /\ selectedPeriod = "custom" /\ date # customEndDate
  /\ customEndDate' = date
  /\ loadReports(selectedPeriod, customStartDate, date)
  /\ Quiet({})
  /\ UNCHANGED <<inClients, detailVars, tables, now, selectedPeriod, customStartDate,
                 reportDataVars, selectedTopClientIds, exportingCombined>>

\* the persistence collaborator answers the fetches of one loadReports
ServeReports(c, ok) ==
  /\ c \in reportCalls /\ c.phase = "sent"
  /\ reportCalls' = (reportCalls \ {c}) \cup
       {IF ok THEN [c EXCEPT !.phase = "served", !.resp = "ok",
                             !.clients = tables.clients,
                             !.kes = inRange(tables.kes, c.range),
                             !.usd = inRange(tables.usd, c.range)]
              ELSE [c EXCEPT !.phase = "served", !.resp = "error"]}
  /\ Quiet({})
  /\ UNCHANGED <<inClients, detailVars, tables, now, selectedPeriod, customStartDate,
                 customEndDate, reportsLoading, reportDataVars,
                 selectedTopClientIds, exportingCombined>>

\* loadReports from its last await on.  The setters of a view that has left
\* the screen set nothing; window.__dinixReportTransactions is assigned all
\* the same
loadReportsReturns(c) ==
  /\ c \in reportCalls /\ c.phase = "served"
  /\ reportCalls' = reportCalls \ {c}
  /\ reportsLoading' = IF c.left THEN reportsLoading ELSE FALSE
  /\ IF c.resp = "ok"
       THEN /\ IF c.left
                 THEN UNCHANGED <<clientStats, topClients, monthlyTrends>>
                 ELSE /\ clientStats' = clientStatsOf(c.clients, c.kes, c.usd)
                      /\ topClients' = topClientsList(c.kes, c.usd)
                      /\ monthlyTrends' = trends(c.kes, c.usd)
            /\ txCache' = [kes |-> c.kes, usd |-> c.usd]
       ELSE UNCHANGED reportDataVars
  /\ Quiet({})
  /\ UNCHANGED <<inClients, detailVars, tables, now, selectedPeriod, customStartDate,
                 customEndDate, selectedTopClientIds, exportingCombined>>

\* the checkbox of a row of the top-clients list
toggleTopClientSelection(clientId) ==
  /\ ~reportsLoading
  /\ \E i \in 1..Len(topClients) : topClients[i].client_id = clientId
  /\ selectedTopClientIds' =
       IF clientId \in selectedTopClientIds
         THEN selectedTopClientIds \ {clientId}
         ELSE selectedTopClientIds \cup {clientId}
  /\ Quiet({})
  /\ UNCHANGED <<inClients, detailVars, tables, now, selectedPeriod, customStartDate,
                 customEndDate, reportsLoading, reportDataVars,
                 exportingCombined, reportCalls>>

\* the Clear button, shown while something is selected
clearTopClientSelection ==
  /\ ~reportsLoading /\ Len(topClients) > 0 /\ selectedTopClientIds # {}
  /\ selectedTopClientIds' = {}
  /\ Quiet({})
  /\ UNCHANGED <<inClients, detailVars, tables, now, selectedPeriod, customStartDate,
                 customEndDate, reportsLoading, reportDataVars,
                 exportingCombined, reportCalls>>

\* clientsPayload of exportCombinedFromReports
clientsPayload ==
  LET selected == SelectSeq(topClients,
                            LAMBDA c : c.client_id \in selectedTopClientIds)
  IN [i \in 1..Len(selected) |->
        [client |-> [client_name |-> selected[i].client_name,
                     client_code |-> selected[i].client_code],
         transactionsKES |-> ofClient(txCache.kes, selected[i].client_id),
         transactionsUSD |-> ofClient(txCache.usd, selected[i].client_id)]]

\* exportCombinedFromReports, start to end (nothing in it is awaited).  The
\* Combined button is shown under a non-empty selection; the handler checks
\* the selection itself and is modelled for every selection.
exportCombinedFromReports(shareSupported, fault, outcome) ==
  /\ ~reportsLoading /\ ~exportingCombined
  /\ exportingCombined' = FALSE
  /\ IF selectedTopClientIds = {}
       THEN /\ Quiet({<<"info", "Select at least one top client to combine.">>})
            /\ UNCHANGED selectedTopClientIds
       ELSE IF Len(clientsPayload) = 0
       THEN /\ Quiet({<<"info", "No transactions found for the selected clients.">>})
            /\ UNCHANGED selectedTopClientIds
       ELSE LET result == generateCombinedClientsPDFReport(clientsPayload,
                                                           shareSupported, fault)
                failureNotice ==
                  "Failed to share combined statement. Downloading instead."
            IN /\ pdf' = viewDelivery("export", Len(clientsPayload),
                                      combinedOptions(clientsPayload), result,
                                      shareSupported, fault, outcome, failureNotice)
               /\ csv' = NoCsv
               /\ IF result.thrown # <<>>
                    THEN /\ toast' = {<<"error", "Failed to generate combined statement. Please try again.">>}
                         /\ UNCHANGED selectedTopClientIds
                    ELSE /\ toast' =
                              {<<"success", "Combined statement generated for "
                                   \o ToString(Len(clientsPayload))
                                   \o (IF Len(clientsPayload) > 1
                                         THEN " clients." ELSE " client.")>>}
                              \cup (IF result.onDocReady = 1
                                      THEN shareOrSave(outcome, failureNotice).notices
                                      ELSE {})
                         /\ selectedTopClientIds' = {}
  /\ UNCHANGED <<inClients, detailVars, tables, now, selectedPeriod, customStartDate,
                 customEndDate, reportsLoading, reportDataVars, reportCalls>>

\* the SUMMARY STATISTICS lines with the two client counts exchanged
summaryLinesSwapped(stats) ==
  << <<"SUMMARY STATISTICS">>,
     <<"Total Clients", ",", ToString(stats.totalClients)>>,
     <<"Active Clients", ",", ToString(stats.inactiveClients)>>,
     <<"Inactive Clients", ",", ToString(stats.activeClients)>>,
     <<"Total Transactions", ",", ToString(stats.totalTransactions)>>,
     <<"Total Balance (KES)", ",", ToString(stats.totalBalanceKES)>>,
     <<"Total Balance (USD)", ",", ToString(stats.totalBalanceUSD)>>,
     <<>> >>

\* the SUMMARY STATISTICS lines of csvContent, each line its parts in order
summaryLines(stats) ==
  << <<"SUMMARY STATISTICS">>,
     <<"Total Clients", ",", ToString(stats.totalClients)>>,
     <<"Active Clients", ",", ToString(stats.activeClients)>>,
     <<"Inactive Clients", ",", ToString(stats.inactiveClients)>>,
     <<"Total Transactions", ",", ToString(stats.totalTransactions)>>,
     <<"Total Balance (KES)", ",", ToString(stats.totalBalanceKES)>>,
     <<"Total Balance (USD)", ",", ToString(stats.totalBalanceUSD)>>,
     <<>> >>

\* the TOP CLIENTS lines of csvContent
topClientLines(list) ==
  IF Len(list) = 0 THEN <<>>
  ELSE << <<"TOP CLIENTS">>,
          <<"Client Name,Client Code,Balance (KES),Balance (USD),Transaction Count">> >>
       \o [i \in 1..Len(list) |->
             <<"\"">> \o list[i].client_name \o <<"\"", ",">> \o list[i].client_code
               \o <<",", ToString(list[i].total_balance_kes),
                    ",", ToString(list[i].total_balance_usd),
                    ",", ToString(list[i].transaction_count)>>]
       \o << <<>> >>

\* the MONTHLY TRENDS lines of csvContent
trendLines(list) ==
  IF Len(list) = 0 THEN <<>>
  ELSE << <<"MONTHLY TRENDS">>,
          <<"Month,Transactions (KES),Transactions (USD),Balance (KES),Balance (USD)">> >>
       \o [i \in 1..Len(list) |->
             <<ToString(list[i].month),
               ",", ToString(list[i].transactions_kes),
               ",", ToString(list[i].transactions_usd),
               ",", ToString(list[i].balance_kes),
               ",", ToString(list[i].balance_usd)>>]

\* new Date().toLocaleString() at the export
nowLocale == "1/15/2024, 10:00:00 AM"

\* messages of errors the making of the file may throw ("" = no error)
CsvFaults == {"", "Blob failure"}

\* csvContent of exportToExcel, line by line
csvContent ==
  << <<"Dinix - Financial Report">>, <<"Generated: ", nowLocale>>, <<>> >>
    \o summaryLines(clientStats)
    \o topClientLines(topClients)
    \o trendLines(monthlyTrends)

\* exportToExcel; fault is the message of an Error thrown while the file is
\* made ("" for none)
exportToExcel(fault) ==
  /\ ~reportsLoading
  /\ pdf' = NoPdf
  /\ IF fault = ""
       THEN /\ csv' = csvContent
            /\ toast' = {}
       ELSE /\ csv' = NoCsv
            /\ toast' = {<<"error", "Failed to export to Excel: " \o fault>>}
  /\ UNCHANGED <<inClients, detailVars, reportVars>>

NextReports ==
  \/ \E period \in ReportPeriods : SetSelectedPeriod(period)
  \/ \E c \in reportCalls, ok \in BOOLEAN : ServeReports(c, ok)
  \/ \E c \in reportCalls : loadReportsReturns(c)
  \/ \E clientId \in 1..MaxClients : toggleTopClientSelection(clientId)
  \/ clearTopClientSelection
  \/ \E shareSupported \in BOOLEAN, fault \in Faults, outcome \in ShareOutcomes :
       exportCombinedFromReports(shareSupported, fault, outcome)
  \/ \E onDocReady \in BOOLEAN, fault \in Faults : CombinedStatement(onDocReady, fault)

\* the view with its selection and combined export, over the small tables
SpecReports == InitReports /\ [][NextReports]_vars

\* the view over any of the tables
InitRollups ==
  /\ inClients = <<>>
  /\ pdf = NoPdf
  /\ toast = {}
  /\ csv = NoCsv
  /\ DetailIdle
  /\ tables \in ReportTables /\ now \in Clocks
  /\ selectedPeriod = "last6" /\ reportsLoading = TRUE
  /\ customStartDate = NoDate /\ customEndDate = NoDate
  /\ clientStats = ZeroStats
  /\ topClients = <<>> /\ monthlyTrends = <<>>
  /\ selectedTopClientIds = {}
  /\ exportingCombined = FALSE
  /\ txCache = [kes |-> <<>>, usd |-> <<>>]
  /\ reportCalls = {ReportLoad(getDateRange("last6", NoDate, NoDate))}

NextRollups ==
  \/ \E period \in ReportPeriods : SetSelectedPeriod(period)
  \/ \E date \in CustomDates : SetCustomStartDate(date)
  \/ \E date \in CustomDates : SetCustomEndDate(date)
  \/ \E c \in reportCalls, ok \in BOOLEAN : ServeReports(c, ok)
  \/ \E c \in reportCalls : loadReportsReturns(c)
  \/ \E fault \in CsvFaults : exportToExcel(fault)

\* the view with its periods, rollups and CSV export
SpecRollups == InitRollups /\ [][NextRollups]_vars

\* ------------------------------------------- the reports page, revisited
\* loads of views that left the screen and are still under way
MaxLeft == 1

\* renderPage shows <Reports />: the view has finished a load or awaits one
ReportsShown == ~reportsLoading \/ \E c \in reportCalls : ~c.left

\* onNavigate to another page: renderPage drops <Reports /> and its state;
\* its loads run on
LeaveReports ==
  /\ ReportsShown
  /\ Cardinality({ c \in reportCalls : c.left }) < MaxLeft
  /\ selectedPeriod' = "last6" /\ reportsLoading' = TRUE
  /\ customStartDate' = NoDate /\ customEndDate' = NoDate
  /\ clientStats' = ZeroStats
  /\ topClients' = <<>> /\ monthlyTrends' = <<>>
  /\ selectedTopClientIds' = {}
  /\ exportingCombined' = FALSE
  /\ reportCalls' = { [c EXCEPT !.left = TRUE] : c \in reportCalls }
  /\ Quiet({})
  /\ UNCHANGED <<inClients, detailVars, tables, now, txCache>>

\* onNavigate("reports"): a new <Reports /> mounts and its effect runs
\* loadReports
OpenReports ==
  /\ ~ReportsShown
  /\ loadReports("last6", NoDate, NoDate)
  /\ Quiet({})
  /\ UNCHANGED <<inClients, detailVars, tables, now, selectedPeriod, customStartDate,
                 customEndDate, reportDataVars, selectedTopClientIds,
                 exportingCombined>>

\* the reports page left and opened again, against a persistence
\* collaborator that answers every call successfully
NextVisits ==
  \/ \E period \in ReportPeriods : SetSelectedPeriod(period)
  \/ \E date \in CustomDates : SetCustomStartDate(date)
  \/ \E date \in CustomDates : SetCustomEndDate(date)
  \/ \E c \in reportCalls : ServeReports(c, TRUE)
  \/ \E c \in reportCalls : loadReportsReturns(c)
  \/ LeaveReports
  \/ OpenReports

\* the first visit, on a day whose local and UTC dates agree
InitVisits == InitRollups /\ now = DayClock

SpecVisits == InitVisits /\ [][NextVisits]_vars

\* ============================================== the two statement exports
\* rows a client holds from earlier sessions
SeedRow(id, date, description, debit, credit) ==
  [NoRow EXCEPT !.id = id, !.created_at = id, !.transaction_date = date,
                !.description = description,
                !.debit = debit, !.credit = credit]

SeedDbs ==
  { [kes |-> {}, usd |-> {}],
    [kes |-> {SeedRow(1, 1, <<"r", "e", "n", "t">>, 0, 4)}, usd |-> {}],
    [kes |-> {SeedRow(1, 1, <<"M", "G", " ", "r", "u", "n">>, 2, 0),
              SeedRow(2, 1, <<"m", "i", "l", "e", "a", "g", "e">>, 2, 0),
              SeedRow(3, 2, <<"3", "m", "g">>, 0, 4)},
     usd |-> {SeedRow(4, 2, <<"r", "e", "n", "t">>, 4, 0)}] }

\* renderPage shows one page at a time: the reports page, or the detail page
\* of a client, whose rows are then fetched
InitExport ==
  \/ InitReports
  \/ /\ inClients = <<>> /\ pdf = NoPdf /\ csv = NoCsv /\ toast = {}
     /\ mounted = TRUE /\ client = NoClient
     /\ transactionsKES = <<>> /\ transactionsUSD = <<>>
     /\ summaryKES = ZeroSummary /\ summaryUSD = ZeroSummary
     /\ loading = TRUE /\ submitting = FALSE /\ isSavingInline = FALSE
     /\ activeTab = "kes"
     /\ showAddTransaction = FALSE /\ showEditTransaction = FALSE
     /\ editingTransaction = NoRow
     /\ showPinModal = FALSE /\ pinAction = NoPinAction /\ pinInput = <<>>
     /\ db \in SeedDbs /\ nextId = 5
     /\ calls = {LoadCall("mount")}
     /\ ReportsIdle

\* the page on screen with its statement export; the detail page is only
\* read and asked for statements
NextExport ==
  \/ \E period \in ReportPeriods : SetSelectedPeriod(period)
  \/ \E c \in reportCalls, ok \in BOOLEAN : ServeReports(c, ok)
  \/ \E c \in reportCalls : loadReportsReturns(c)
  \/ \E clientId \in 1..MaxClients : toggleTopClientSelection(clientId)
  \/ clearTopClientSelection
  \/ \E shareSupported \in BOOLEAN, fault \in Faults, outcome \in ShareOutcomes :
       exportCombinedFromReports(shareSupported, fault, outcome)
  \/ \E c \in calls : ServeFetch(c, "ok")
  \/ \E c \in calls : LoadReturns(c)
  \/ \E tab \in {"kes", "usd"} : SetActiveTab(tab)
  \/ \E reportType \in PickerReportTypes, shareSupported \in BOOLEAN,
        fault \in Faults, outcome \in ShareOutcomes :
       generatePDFReport(reportType, shareSupported, fault, outcome)

SpecExport == InitExport /\ [][NextExport]_vars

\* ========================================================= the busy flags
\* renderPage shows one page at a time: the reports page, or the detail page
\* of a client with one row, who has room for one more
InitBusy ==
  \/ InitReports
  \/ /\ inClients = <<>> /\ pdf = NoPdf /\ csv = NoCsv /\ toast = {}
     /\ mounted = TRUE /\ client = NoClient
     /\ transactionsKES = <<>> /\ transactionsUSD = <<>>
     /\ summaryKES = ZeroSummary /\ summaryUSD = ZeroSummary
     /\ loading = TRUE /\ submitting = FALSE /\ isSavingInline = FALSE
     /\ activeTab = "kes"
     /\ showAddTransaction = FALSE /\ showEditTransaction = FALSE
     /\ editingTransaction = NoRow
     /\ showPinModal = FALSE /\ pinAction = NoPinAction /\ pinInput = <<>>
     /\ db = [kes |-> {SeedRow(1, 1, <<"r", "e", "n", "t">>, 0, 4)}, usd |-> {}]
     /\ nextId = MaxId
     /\ calls = {LoadCall("mount")}
     /\ ReportsIdle

\* the page on screen, with everything on it that sets a busy flag
NextBusy ==
  \/ NextDetail
  \/ \E period \in ReportPeriods : SetSelectedPeriod(period)
  \/ \E c \in reportCalls, ok \in BOOLEAN : ServeReports(c, ok)
  \/ \E c \in reportCalls : loadReportsReturns(c)
  \/ \E clientId \in 1..MaxClients : toggleTopClientSelection(clientId)
  \/ \E shareSupported \in BOOLEAN, fault \in Faults, outcome \in ShareOutcomes :
       exportCombinedFromReports(shareSupported, fault, outcome)

\* the page on screen, the user and the persistence collaborator free to do
\* anything at any time
SpecPage == InitBusy /\ [][NextBusy]_vars

\* A call handed to the persistence collaborator is answered, and a handler
\* whose awaited call was answered is resumed by the event loop; the user is
\* under no obligation.  The last conjunct is the weak fairness of
\* loadReportsReturns written out: it is enabled exactly when a load has been
\* answered.
FairBusy ==
  /\ WF_vars(\E c \in calls, ok \in BOOLEAN : ServeInsert(c, ok))
  /\ WF_vars(\E c \in calls, ok \in BOOLEAN : ServeDelete(c, ok))
  /\ WF_vars(\E c \in calls, outcome \in {"ok", "blocked", "error"} : ServeUpdate(c, outcome))
  /\ WF_vars(\E c \in calls, outcome \in FetchOutcomes : ServeFetch(c, outcome))
  /\ WF_vars(\E c \in calls : AddReturns(c))
  /\ WF_vars(\E c \in calls : InlineReturns(c))
  /\ WF_vars(\E c \in calls : DeleteReturns(c))
  /\ WF_vars(\E c \in calls : UpdateReturns(c))
  /\ WF_vars(\E c \in calls : LoadReturns(c))
  /\ WF_vars(\E c \in reportCalls, ok \in BOOLEAN : ServeReports(c, ok))
  /\ \/ []<>(~\E c \in reportCalls : c.phase = "served")
     \/ []<><<\E c \in reportCalls : loadReportsReturns(c)>>_vars

SpecBusy == SpecPage /\ FairBusy

\* ============================================================== claims
\* sum of field f (a missing value counting as 0) over the index set I of s,
\* taken in no particular order
RECURSIVE SumIdx(_, _, _)
SumIdx(s, I, f) ==
  IF I = {} THEN 0
  ELSE LET i == CHOOSE x \in I : TRUE
       IN (IF s[i][f] = Null THEN 0 ELSE s[i][f]) + SumIdx(s, I \ {i}, f)

ExpectedSummary(s) ==
  [receivable |-> SumIdx(s, DOMAIN s, "debit"),
   paid |-> SumIdx(s, DOMAIN s, "credit"),
   balance |-> SumIdx(s, DOMAIN s, "credit") - SumIdx(s, DOMAIN s, "debit")]

Reorderings(s) ==
  { [i \in 1..Len(s) |-> s[p[i]]] : p \in Permutations(1..Len(s)) }

StatementMade == pdf.op # "none" /\ pdf.nClients > 0

\* C1: both summary computations return paid = sum of credits, receivable =
\* sum of debits, balance = paid - receivable (a missing or zero amount
\* counting as 0), whatever the order of the list, the empty list included.
C1_SummaryIsSums ==
  StatementMade =>
    \A cur \in {"kes", "usd"} :
      LET list == IF cur = "kes" THEN pdf.options.transactionsKES
                                 ELSE pdf.options.transactionsUSD
          summary == IF cur = "kes" THEN pdf.options.summaryKES
                                    ELSE pdf.options.summaryUSD
      IN /\ summary = ExpectedSummary(list)
         /\ \A r \in Reorderings(list) :
              /\ calculateSummary(r) = summary
              /\ combinedCalculateSummary(r) = summary

C1_Witness ==
  /\ pdf.op = "client"
  /\ Len(pdf.options.transactionsKES) = 2
  /\ pdf.options.transactionsKES[1].credit = Null
  /\ pdf.options.transactionsKES[2].debit = 0
  /\ pdf.options.summaryKES = [receivable |-> 2, paid |-> 5, balance |-> 3]

\* C2: in every rendered section the running balance of the last row is the
\* balance of the Summary of the same list (the footer's balance cell); an
\* empty list gives no rows and a Summary balance of 0.
C2_LastRowIsSummaryBalance ==
  StatementMade =>
    /\ \A i \in 1..Len(pdf.result.doc.sections) :
         LET sec == pdf.result.doc.sections[i]
         IN /\ Len(sec.body) > 0
            /\ sec.body[Len(sec.body)][5] = sec.foot[1][5]
    /\ \A cur \in {"kes", "usd"} :
         LET list == IF cur = "kes" THEN pdf.options.transactionsKES
                                    ELSE pdf.options.transactionsUSD
             summary == IF cur = "kes" THEN pdf.options.summaryKES
                                       ELSE pdf.options.summaryUSD
         IN list = <<>> =>
              /\ buildTableData(list, "KES") = <<>>
              /\ summary.balance = 0

C2_Witness ==
  /\ pdf.op = "client"
  /\ Len(pdf.result.doc.sections) = 1
  /\ Len(pdf.result.doc.sections[1].body) = 2
  /\ pdf.result.doc.sections[1].body[1][5] = <<"-", "USD", " ", "3">>
  /\ pdf.result.doc.sections[1].body[2][5] = <<"USD", " ", "2">>
  /\ pdf.options.transactionsKES = <<>>

\* C3: the merged list of each currency is as long as the per-client lists
\* together, and its Summary is the component-wise sum of their Summaries.
RECURSIVE SumOfClients(_, _, _)
SumOfClients(clients, cur, field) ==
  IF clients = <<>> THEN 0
  ELSE LET list == IF cur = "kes" THEN Head(clients).transactionsKES
                                  ELSE Head(clients).transactionsUSD
       IN (IF field = "len" THEN Len(list) ELSE calculateSummary(list)[field])
            + SumOfClients(Tail(clients), cur, field)

C3_CombinePreserves ==
  (pdf.op = "combined" /\ pdf.nClients > 0) =>
    \A cur \in {"kes", "usd"} :
      LET merged == IF cur = "kes" THEN pdf.options.transactionsKES
                                   ELSE pdf.options.transactionsUSD
          summary == IF cur = "kes" THEN pdf.options.summaryKES
                                    ELSE pdf.options.summaryUSD
      IN /\ Len(merged) = SumOfClients(inClients, cur, "len")
         /\ \A f \in {"paid", "receivable", "balance"} :
              summary[f] = SumOfClients(inClients, cur, f)

C3_Witness ==
  /\ pdf.op = "combined"
  /\ Len(inClients) = 2
  /\ Len(inClients[1].transactionsKES) = 1
  /\ Len(inClients[2].transactionsKES) = 1
  /\ inClients[2].transactionsKES[1].description = <<>>
  /\ Len(pdf.options.transactionsKES) = 2
  /\ pdf.options.summaryKES.balance = 2

\* C9: for the report types full, kes-only and usd-only a currency section
\* is rendered iff the type selects the currency and its list is non-empty;
\* the notice is rendered iff no section is, never together with a table.
C9_SectionPolicy ==
  (StatementMade /\ pdf.result.doc.built
     /\ pdf.options.reportType \in {"full", "kes-only", "usd-only"}) =>
    LET doc == pdf.result.doc
        syms == { doc.sections[i].sym : i \in 1..Len(doc.sections) }
    IN /\ Len(doc.sections) = Cardinality(syms)
       /\ "KES" \in syms <=> /\ pdf.options.reportType \in {"full", "kes-only"}
                              /\ pdf.options.transactionsKES # <<>>
       /\ "USD" \in syms <=> /\ pdf.options.reportType \in {"full", "usd-only"}
                              /\ pdf.options.transactionsUSD # <<>>
       /\ doc.notice <=> doc.sections = <<>>

C9_Witness ==
  /\ pdf.op = "client"
  /\ pdf.result.doc.built
  /\ pdf.options.reportType = "kes-only"
  /\ pdf.options.transactionsKES = <<>>
  /\ pdf.options.transactionsUSD # <<>>
  /\ pdf.result.doc.notice
  /\ pdf.result.doc.sections = <<>>

\* the transactions of a list, as a set, and their ids
RowsOf(list) == { list[i] : i \in 1..Len(list) }
IdsOf(list) == { list[i].id : i \in 1..Len(list) }

Settled == mounted /\ ~loading /\ client # NoClient /\ calls = {}

\* C4: against a persistence collaborator that answers every call
\* successfully, once no call is in flight the local list of each currency
\* holds exactly the transactions the collaborator holds for that currency,
\* each once.
C4_LocalMatchesPersistence ==
  Settled =>
    \A cur \in {"kes", "usd"} :
      /\ RowsOf(listOf(cur)) = db[cur]
      /\ Len(listOf(cur)) = Cardinality(db[cur])

\* C5: a delete call is sent, and the edit dialog opened, only by a step
\* taken with the PIN dialog open, the correct PIN in its input and that very
\* action pending; verifying a wrong PIN or cancelling sends no call and
\* leaves lists and summaries alone, a wrong PIN also keeping the dialog
\* open, its input cleared and the pending action retained.
C5_PinGate ==
  [][ /\ \A c \in calls' \ calls :
           (c.kind = "delete" /\ c.phase = "sent") =>
             /\ showPinModal /\ pinInput = correctPin
             /\ pinAction.type = "delete"
             /\ c.row.id = pinAction.transactionId
             /\ c.cur = pinAction.currency
      /\ (showEditTransaction' /\ ~showEditTransaction) =>
             /\ showPinModal /\ pinInput = correctPin
             /\ pinAction.type = "edit"
             /\ editingTransaction' = pinAction.transaction
      /\ (verifyPinAndExecute /\ pinInput # correctPin) =>
             /\ calls' = calls /\ UNCHANGED <<listVars, editVars>>
             /\ showPinModal' /\ pinInput' = <<>> /\ pinAction' = pinAction
      /\ CancelPin => (calls' = calls /\ UNCHANGED <<listVars, editVars>>)
    ]_vars

C5_Witness ==
  /\ \E c \in calls : c.kind = "delete" /\ c.phase = "sent" /\ c.row.id = 1
  /\ ~showPinModal
  /\ pinAction.type = "delete" /\ pinAction.transactionId = 1

\* C6: when the update returns no error and no row, handleEditTransaction
\* shows an error notice and no success notice, leaves the edit dialog as it
\* is (open on the same transaction), starts no reload and leaves lists and
\* summaries unchanged.
C6_ZeroRowsIsFailure ==
  [][ \A c \in calls :
        (c.kind = "update" /\ c.phase = "served" /\ c.resp = "blocked"
           /\ c \notin calls') =>
          /\ \E n \in toast' : n[1] = "error"
          /\ \A n \in toast' : n[1] # "success"
          /\ UNCHANGED <<editVars, listVars, loading>>
          /\ \A d \in calls' : d.kind # "load"
    ]_vars

C6_Witness ==
  /\ toast = {<<"error", "Update blocked by database policy.">>}
  /\ showEditTransaction /\ editingTransaction.id = 1
  /\ calls = {} /\ ~submitting
  /\ RowsOf(transactionsKES) = db.kes /\ db.kes # {}

\* C7: a step that resumes an insert or a delete whose call returned an
\* error changes no list and no summary; a transaction enters a local list
\* only in the step that resumes its own successful insert, and leaves it
\* only in the step that resumes its own successful delete (the reload of
\* the whole view apart).
C7_OnlyConfirmedChanges ==
  [][ /\ \A c \in calls \ calls' :
           (c.kind \in {"add", "inline", "delete"} /\ c.resp = "error") =>
             UNCHANGED listVars
      /\ (mounted' /\ \A c \in calls \ calls' : c.kind # "load") =>
           \A cur \in {"kes", "usd"} :
             LET before == IdsOf(listOf(cur))
                 after == IdsOf(IF cur = "kes" THEN transactionsKES'
                                               ELSE transactionsUSD')
             IN /\ \A id \in after \ before :
                     \E c \in calls \ calls' :
                       /\ c.kind \in {"add", "inline"} /\ c.cur = cur
                       /\ c.resp = "ok" /\ c.data.id = id
                /\ \A id \in before \ after :
                     \E c \in calls \ calls' :
                       /\ c.kind = "delete" /\ c.cur = cur
                       /\ c.resp = "ok" /\ c.row.id = id
    ]_vars

\* the order the statement is to have: transaction date ascending, and
\* among equal dates the earlier created first
RECURSIVE oldestFirst(_)
oldestFirst(rows) ==
  IF rows = {} THEN <<>>
  ELSE LET first == CHOOSE r \in rows : \A q \in rows :
                      \/ q.transaction_date > r.transaction_date
                      \/ /\ q.transaction_date = r.transaction_date
                         /\ q.created_at >= r.created_at
       IN <<first>> \o oldestFirst(rows \ {first})

\* C8: the rows of every section of a statement made from the client detail
\* view are those of its list in ascending transaction-date order, equal
\* dates in creation order.
C8_StatementOrder ==
  (pdf.op = "client" /\ pdf.result.doc.built) =>
    \A i \in 1..Len(pdf.result.doc.sections) :
      LET sec == pdf.result.doc.sections[i]
          list == IF sec.sym = "KES" THEN pdf.options.transactionsKES
                                     ELSE pdf.options.transactionsUSD
      IN Len(list) = Cardinality(RowsOf(list)) =>
           sec.body = mapRows(oldestFirst(RowsOf(list)), sec.sym, 0)

\* C10: a call of the combiner with no client throws before a document is
\* built, handed to the callback or saved, and the reports view never makes
\* such a call: with nothing selected, or nothing of the current top-clients
\* list selected, its export ends with a notice and no statement call.
C10_NoEmptyCombined ==
  /\ []((pdf.op \in {"combined", "export"} /\ pdf.nClients = 0) =>
          /\ pdf.result.thrown # <<>>
          /\ ~pdf.result.doc.built
          /\ pdf.result.onDocReady = 0 /\ pdf.result.save = 0)
  /\ [](pdf.op = "export" => pdf.nClients > 0)
  /\ [][ \A shareSupported \in BOOLEAN, fault \in Faults, outcome \in ShareOutcomes :
           (exportCombinedFromReports(shareSupported, fault, outcome)
              /\ \A i \in 1..Len(topClients) :
                   topClients[i].client_id \notin selectedTopClientIds) =>
             /\ pdf' = NoPdf
             /\ \E n \in toast' : n[1] = "info"
       ]_vars

C10_Witness ==
  /\ pdf = NoPdf
  /\ toast = {<<"info", "No transactions found for the selected clients.">>}
  /\ selectedTopClientIds = {1}
  /\ Len(topClients) > 0
  /\ ~reportsLoading

\* C11: a statement call that succeeds hands the document over exactly once:
\* with a completion callback, the callback is invoked once with the built
\* document and the file name and doc.save is not invoked; without one,
\* doc.save is invoked once and no callback.
C11_OneHandOff ==
  (pdf.op # "none" /\ pdf.result.thrown = <<>>) =>
    /\ pdf.result.doc.built
    /\ pdf.result.fileName =
         <<"Dinix_Statement_">> \o pdf.options.client.client_code
           \o <<"_", todayISO, ".pdf">>
    /\ pdf.result.onDocReady + pdf.result.save = 1
    /\ pdf.onDocReady => (pdf.result.onDocReady = 1 /\ pdf.result.save = 0)
    /\ ~pdf.onDocReady => (pdf.result.onDocReady = 0 /\ pdf.result.save = 1)

C11_Witness ==
  /\ pdf.op = "client" /\ pdf.onDocReady
  /\ pdf.result.thrown = <<>> /\ pdf.result.doc.built
  /\ pdf.result.onDocReady = 1
  /\ Len(pdf.result.doc.sections) = 2

C13_DeliveredOnce ==
  (pdf.op \in {"client", "export"} /\ pdf.result.thrown = <<>>) =>
    /\ pdf.shared + pdf.saved = 1
    /\ (~pdf.onDocReady \/ pdf.share \in {"refused", "rejected"}) => pdf.saved = 1
    /\ pdf.shared = 1 => (pdf.onDocReady /\ pdf.share = "shared")

C13_Witness ==
  /\ pdf.op = "client" /\ pdf.onDocReady /\ pdf.share = "rejected"
  /\ pdf.result.doc.built /\ pdf.saved = 1 /\ pdf.shared = 0
  /\ mounted /\ client # NoClient
  /\ toast = {<<"error", "Failed to share statement. Downloading instead.">>}

\* C14: every failed persistence call (fetch, insert, update, delete) and
\* every failed statement generation, in the client detail view and in the
\* reports view, ends with an error notice shown to the user; a failed
\* report load of loadReports included.
C14_FailuresNoticed ==
  [][ /\ \A c \in calls :
           ((AddReturns(c) \/ InlineReturns(c) \/ DeleteReturns(c)
               \/ UpdateReturns(c) \/ LoadReturns(c))
              /\ c.resp # "ok") =>
             \E n \in toast' : n[1] = "error"
      /\ \A c \in reportCalls :
           (loadReportsReturns(c) /\ c.resp # "ok") =>
             \E n \in toast' : n[1] = "error"
      /\ (pdf'.op \in {"client", "export"} /\ pdf'.result.thrown # <<>>) =>
           \E n \in toast' : n[1] = "error"
    ]_vars

\* C15: the combiner leaves the lists it is given unchanged, and each merged
\* list holds, for every transaction of every client, exactly one copy that
\* differs from it in the description only: '<name> - <description>', or
\* '<name>' alone for an empty description; the merged list ascends by date.
C15_Copies ==
  /\ [][pdf'.op = "combined" => inClients' = inClients]_vars
  /\ []((pdf.op = "combined" /\ pdf.nClients > 0) =>
          \A cur \in {"kes", "usd"} :
            LET merged == IF cur = "kes" THEN pdf.options.transactionsKES
                                         ELSE pdf.options.transactionsUSD
                listOfClient(i) == IF cur = "kes" THEN inClients[i].transactionsKES
                                                  ELSE inClients[i].transactionsUSD
                name(i) == inClients[i].client.client_name
                expected(i, j) ==
                  LET t == listOfClient(i)[j]
                  IN [transaction_date |-> t.transaction_date,
                      description |->
                        IF Len(t.description) > 0
                          THEN name(i) \o <<" ", "-", " ">> \o t.description
                          ELSE name(i),
                      debit |-> t.debit, credit |-> t.credit]
                origins == { x \in (1..Len(inClients)) \X (1..MaxLen) :
                               x[2] <= Len(listOfClient(x[1])) }
            IN /\ Len(merged) = Cardinality(origins)
               /\ \A x \in origins :
                    Cardinality({ k \in 1..Len(merged) : merged[k] = expected(x[1], x[2]) })
                      = Cardinality({ y \in origins :
                                        expected(y[1], y[2]) = expected(x[1], x[2]) })
               /\ \A k \in 1..Len(merged), l \in 1..Len(merged) :
                    k < l => merged[k].transaction_date <= merged[l].transaction_date)

C15_Witness ==
  /\ pdf.op = "combined" /\ Len(inClients) = 2
  /\ Len(inClients[1].transactionsKES) = 1
  /\ Len(inClients[2].transactionsKES) = 1
  /\ inClients[1].transactionsKES[1] = Entry(2, <<>>, 3, 0)
  /\ inClients[2].transactionsKES[1] = Entry(1, <<"r","e","n","t">>, 0, 5)
  /\ pdf.options.transactionsKES =
       << Entry(1, <<"B", " ", "-", " ", "r","e","n","t">>, 0, 5),
          Entry(2, <<"A">>, 3, 0) >>

\* C16: the mileage count of a list is the number of its descriptions that
\* hold 'mg', in any letter case, as a whole word (a maximal run of letters,
\* digits and underscores); 'MG run', 'mileage', '3mg' count 1; the footer of
\* a statement section and the mileage card of the view show the same count
\* for the same list.
lower(ch) == CASE ch = "M" -> "m" [] ch = "G" -> "g" [] OTHER -> ch

isMgWord(text, i, j) ==
  /\ \A k \in i..j : text[k] \in WordChars
  /\ (i = 1 \/ text[i - 1] \notin WordChars)
  /\ (j = Len(text) \/ text[j + 1] \notin WordChars)
  /\ [k \in 1..(j - i + 1) |-> lower(text[i + k - 1])] = <<"m", "g">>

WholeWordCount(txns) ==
  Cardinality({ n \in 1..Len(txns) :
                  \E i \in 1..Len(txns[n].description),
                     j \in 1..Len(txns[n].description) :
                    i <= j /\ isMgWord(txns[n].description, i, j) })

mileageText(n) ==
  <<"Mileage (MG) Count: ", ToString(n), " trip">> \o (IF n # 1 THEN <<"s">> ELSE <<>>)

C16_MileageCount ==
  /\ Visible => mgCountCard = WholeWordCount(currentTransactions)
  /\ (pdf.op = "client" /\ pdf.result.doc.built) =>
       \A n \in 1..Len(pdf.result.doc.sections) :
         LET sec == pdf.result.doc.sections[n]
             list == IF sec.sym = "KES" THEN pdf.options.transactionsKES
                                        ELSE pdf.options.transactionsUSD
             tab == IF sec.sym = "KES" THEN "kes" ELSE "usd"
         IN /\ sec.foot[2][2] = mileageText(WholeWordCount(list))
            /\ (Visible /\ tab = activeTab) => sec.foot[2][2] = mileageText(mgCountCard)

C16_Witness ==
  /\ Visible /\ activeTab = "kes"
  /\ { transactionsKES[i].description : i \in 1..Len(transactionsKES) } =
       { <<"M", "G", " ", "r", "u", "n">>, <<"m", "i", "l", "e", "a", "g", "e">>,
         <<"3", "m", "g">> }
  /\ Len(transactionsKES) = 3
  /\ mgCountCard = 1
  /\ pdf.op = "client" /\ pdf.result.doc.built
  /\ Len(pdf.result.doc.sections) = 2
  /\ pdf.result.doc.sections[1].foot[2][2] = <<"Mileage (MG) Count: ", "1", " trip">>
  /\ pdf.result.doc.sections[2].foot[2][2] = <<"Mileage (MG) Count: ", "0", " trip", "s">>

\* C17: when loadReports runs with the period 'custom' and the start date or
\* the end date missing, it issues no fetch and leaves the loading flag, the
\* statistics, the top-clients list, the monthly trends and the cached
\* transactions as they are.
C17_CustomNeedsDates ==
  [][ ( /\ <<selectedPeriod', customStartDate', customEndDate'>>
             # <<selectedPeriod, customStartDate, customEndDate>>
        /\ selectedPeriod' = "custom"
        /\ (customStartDate' = NoDate \/ customEndDate' = NoDate) ) =>
      /\ reportCalls' = reportCalls
      /\ reportsLoading' = reportsLoading
      /\ clientStats' = clientStats
      /\ topClients' = topClients
      /\ monthlyTrends' = monthlyTrends
      /\ txCache' = txCache
    ]_vars

C17_Witness ==
  /\ selectedPeriod = "custom"
  /\ customStartDate = 11 /\ customEndDate = NoDate
  /\ ~reportsLoading /\ reportCalls = {}
  /\ tables = BookTables
  /\ clientStats.totalTransactions = 12
  /\ Len(txCache.kes) = 10

\* C18: after a successful load the top-clients list has at most 10 entries,
\* no client twice, composites (KES net + 130 x USD net of the fetched
\* transactions) that never increase down the list, and no client with
\* fetched transactions outside the list whose composite is larger than that
\* of a client in it.
RECURSIVE NetSum(_, _)
NetSum(rows, id) ==
  IF rows = <<>> THEN 0
  ELSE (IF Head(rows).client_id = id
          THEN OrZero(Head(rows).credit) - OrZero(Head(rows).debit) ELSE 0)
       + NetSum(Tail(rows), id)

Composite(id) == NetSum(txCache.kes, id) + 130 * NetSum(txCache.usd, id)

FetchedClients ==
  { txCache.kes[i].client_id : i \in 1..Len(txCache.kes) }
    \cup { txCache.usd[i].client_id : i \in 1..Len(txCache.usd) }

C18_TopClients ==
  LET listed == { topClients[i].client_id : i \in 1..Len(topClients) }
  IN /\ Len(topClients) <= 10
     /\ Cardinality(listed) = Len(topClients)
     /\ listed \subseteq FetchedClients
     /\ \A i \in 1..Len(topClients) :
          /\ topClients[i].total_balance_kes = NetSum(txCache.kes, topClients[i].client_id)
          /\ topClients[i].total_balance_usd = NetSum(txCache.usd, topClients[i].client_id)
     /\ \A i \in 1..Len(topClients), j \in 1..Len(topClients) :
          i < j => Composite(topClients[i].client_id) >= Composite(topClients[j].client_id)
     /\ \A out \in FetchedClients \ listed, kept \in listed :
          Composite(out) <= Composite(kept)

C18_Witness ==
  /\ tables = WideTables /\ ~reportsLoading
  /\ Cardinality(FetchedClients) = 11
  /\ Len(topClients) = 10
  /\ topClients[1].client_id = 11
  /\ \A i \in 1..Len(topClients) : topClients[i].client_id # 3

\* C19: after a successful load there is exactly one monthly bucket for each
\* month in which a fetched KES or USD transaction is dated and no other
\* bucket; the counts and net balances of a bucket are those of the fetched
\* transactions of its month, per currency; the buckets ascend by month.
RECURSIVE MonthNet(_, _)
MonthNet(rows, month) ==
  IF rows = <<>> THEN 0
  ELSE (IF Head(rows).transaction_date \div 10 = month
          THEN OrZero(Head(rows).credit) - OrZero(Head(rows).debit) ELSE 0)
       + MonthNet(Tail(rows), month)

MonthCount(rows, month) ==
  Cardinality({ i \in 1..Len(rows) : rows[i].transaction_date \div 10 = month })

FetchedMonths ==
  { txCache.kes[i].transaction_date \div 10 : i \in 1..Len(txCache.kes) }
    \cup { txCache.usd[i].transaction_date \div 10 : i \in 1..Len(txCache.usd) }

C19_MonthlyBuckets ==
  /\ { monthlyTrends[i].month : i \in 1..Len(monthlyTrends) } = FetchedMonths
  /\ Len(monthlyTrends) = Cardinality(FetchedMonths)
  /\ \A i \in 1..Len(monthlyTrends) :
       LET b == monthlyTrends[i]
       IN /\ b.transactions_kes = MonthCount(txCache.kes, b.month)
          /\ b.transactions_usd = MonthCount(txCache.usd, b.month)
          /\ b.balance_kes = MonthNet(txCache.kes, b.month)
          /\ b.balance_usd = MonthNet(txCache.usd, b.month)
  /\ \A i \in 1..Len(monthlyTrends), j \in 1..Len(monthlyTrends) :
       i < j => monthlyTrends[i].month < monthlyTrends[j].month

C19_Witness ==
  /\ tables = WideTables /\ ~reportsLoading
  /\ Len(monthlyTrends) = 3
  /\ monthlyTrends[1] = [month |-> 0, transactions_kes |-> 0, transactions_usd |-> 1,
                         balance_kes |-> 0, balance_usd |-> 0 - 1]
  /\ monthlyTrends[2].month = 1 /\ monthlyTrends[2].transactions_kes = 6
  /\ monthlyTrends[3].month = 2 /\ monthlyTrends[3].transactions_usd = 1

\* C20: the SUMMARY STATISTICS block of the CSV export is six key,value lines
\* in the order Total Clients, Active Clients, Inactive Clients, Total
\* Transactions, Total Balance (KES), Total Balance (USD); the Inactive
\* Clients value is Total Clients minus Active Clients and every value is the
\* plain number of the loaded statistics.
SummaryKeys ==
  <<"Total Clients", "Active Clients", "Inactive Clients", "Total Transactions",
    "Total Balance (KES)", "Total Balance (USD)">>

C20_SummaryBlock ==
  csv # <<>> =>
    \E k \in 1..Len(csv) :
      /\ csv[k] = <<"SUMMARY STATISTICS">>
      /\ \A n \in 1..Len(csv) : csv[n] = <<"SUMMARY STATISTICS">> => n = k
      /\ Len(csv) >= k + 7
      /\ csv[k + 7] = <<>>
      /\ \A n \in 1..6 : Len(csv[k + n]) = 3 /\ csv[k + n][1] = SummaryKeys[n]
                                             /\ csv[k + n][2] = ","
      /\ csv[k + 1][3] = ToString(clientStats.totalClients)
      /\ csv[k + 2][3] = ToString(clientStats.activeClients)
      /\ csv[k + 3][3] = ToString(clientStats.totalClients - clientStats.activeClients)
      /\ csv[k + 4][3] = ToString(clientStats.totalTransactions)
      /\ csv[k + 5][3] = ToString(clientStats.totalBalanceKES)
      /\ csv[k + 6][3] = ToString(clientStats.totalBalanceUSD)
      /\ clientStats.totalClients \in {0, Len(tables.clients)}
      /\ clientStats.totalTransactions = Len(txCache.kes) + Len(txCache.usd)

C20_Witness ==
  /\ tables = BookTables
  /\ Len(csv) > 10
  /\ csv[4] = <<"SUMMARY STATISTICS">>
  /\ csv[5] = <<"Total Clients", ",", "5">>
  /\ csv[6] = <<"Active Clients", ",", "3">>
  /\ csv[7] = <<"Inactive Clients", ",", "2">>
  /\ csv[8] = <<"Total Transactions", ",", "12">>
  /\ csv[9] = <<"Total Balance (KES)", ",", "10000">>
  /\ csv[10] = <<"Total Balance (USD)", ",", "250">>

\* C21: the range of the 'current month' period starts on the 1st of the
\* current month and ends today, so its start is never after its end, also
\* at instants whose local and UTC calendar dates differ.
C21_CurrentMonthRange ==
  \A c \in reportCalls :
    (selectedPeriod = "current" /\ c.phase = "sent") =>
      /\ c.range.startDate = (now.local \div 10) * 10 + 1
      /\ c.range.endDate \in {now.local, now.utc}
      /\ c.range.startDate <= c.range.endDate


\* C22: loadClientData sends its three fetches together; client, lists and
\* summaries take the fetched values only in the step after all three were
\* answered and only when all three succeeded.  When one of them failed,
\* nothing fetched is stored, an error notice is shown and the view goes back.
C22_LoadAllOrNothing ==
  /\ [](\A c \in calls : c.kind = "load" =>
          /\ c.phase = "sent" => (c.kesData = <<>> /\ c.usdData = <<>>)
          /\ c.phase = "served" => c.resp \in FetchOutcomes)
  /\ [][client' \notin {client, NoClient} => \E c \in calls : LoadReturns(c)]_vars
  /\ [][\A c \in calls : (mounted /\ LoadReturns(c)) =>
          IF c.resp = "ok"
            THEN /\ mounted' /\ client' = ClientNo(1)
                 /\ transactionsKES' = c.kesData /\ transactionsUSD' = c.usdData
                 /\ summaryKES' = calculateSummary(c.kesData)
                 /\ summaryUSD' = calculateSummary(c.usdData)
            ELSE /\ ~mounted'
                 /\ \E n \in toast' : n[1] = "error"
                 /\ client' = NoClient
                 /\ transactionsKES' = <<>> /\ transactionsUSD' = <<>>
                 /\ summaryKES' = ZeroSummary /\ summaryUSD' = ZeroSummary]_vars

\* a load of a client with stored rows failed on one fetch: the view has gone
\* back with an error notice
C22_Witness ==
  /\ ~mounted /\ db.kes # {}
  /\ <<"error", "Failed to load client">> \in toast
  /\ \A c \in calls : c.kind # "load"

\* C23: on screen, the balance beside the row at position i is the sum of
\* credit - debit over that row and every row shown below it: the top row
\* shows the balance of the Summary of the active currency, the last row its
\* own credit - debit.
C23_RowBalance ==
  Visible =>
    LET n == Len(currentTransactions) IN
    /\ \A i \in 1..n :
         runningBalance(i) =
           SumIdx(currentTransactions, i..n, "credit")
             - SumIdx(currentTransactions, i..n, "debit")
    /\ n > 0 =>
         /\ runningBalance(1) = currentSummary.balance
         /\ runningBalance(n) =
              currentTransactions[n].credit - currentTransactions[n].debit

\* two rows on screen whose balances differ, neither of them zero
C23_Witness ==
  /\ Visible /\ Len(currentTransactions) = 2
  /\ runningBalance(1) # runningBalance(2)
  /\ runningBalance(1) # 0 /\ runningBalance(2) # 0

\* C24: after every step of every handler of the detail view (load, form add,
\* inline add, delete, edit with its reload), in any order and interleaving,
\* the stored summary of each currency is the summary of the stored list of
\* that currency: paid the sum of credits, receivable the sum of debits,
\* balance paid - receivable.
C24_SummaryOfStoredList ==
  /\ summaryKES = ExpectedSummary(transactionsKES)
  /\ summaryUSD = ExpectedSummary(transactionsUSD)

\* a list with a payment and a charge is stored and no handler is under way
C24_Witness ==
  /\ Visible /\ calls = {}
  /\ summaryKES.receivable > 0 /\ summaryKES.paid > 0

\* the rows of the list on screen that come no later than row i in date
\* order (rows of one date in the order shown)
UpToInDateOrder(i) ==
  { j \in 1..Len(currentTransactions) :
      \/ currentTransactions[j].transaction_date < currentTransactions[i].transaction_date
      \/ /\ currentTransactions[j].transaction_date = currentTransactions[i].transaction_date
         /\ j >= i }

\* C25: after any sequence of loads, adds (form or inline, with any date the
\* user chose) and deletes, the list of each currency is in descending order
\* of transaction date, so the balance beside every row on screen is the
\* cumulative balance up to and including that row in date order.
C25_NewestFirst ==
  /\ \A cur \in {"kes", "usd"} : \A i, j \in 1..Len(listOf(cur)) :
       i < j => listOf(cur)[i].transaction_date >= listOf(cur)[j].transaction_date
  /\ Visible =>
       \A i \in 1..Len(currentTransactions) :
         runningBalance(i) =
           SumIdx(currentTransactions, UpToInDateOrder(i), "credit")
             - SumIdx(currentTransactions, UpToInDateOrder(i), "debit")

\* the mutations (form add, quick add, edit, delete) whose persistence call
\* has been sent and not yet answered
PendingMutations ==
  { c \in calls : c.kind \in {"add", "inline", "update", "delete"} /\ c.phase = "sent" }

\* C26: at most one mutation of a client's transactions (form add, quick add,
\* edit, delete) is in flight at any time: one requested while the
\* persistence call of another is pending is not sent.
C26_OneMutationInFlight == Cardinality(PendingMutations) <= 1

\* C27: an action behind the PIN dialog that the user asked for and confirmed
\* with the correct PIN is carried out: the delete is sent, or the edit dialog
\* opens on the transaction asked for, also when it was asked for while an
\* earlier confirmed delete awaits its response; the action asked for stays
\* pending until it is carried out or the dialog is cancelled.
C27_ConfirmedIsCarriedOut ==
  /\ [](showPinModal => pinAction.type # "none")
  /\ [][(pinInput = correctPin /\ verifyPinAndExecute) =>
          /\ pinAction.type = "delete" =>
               \E c \in calls' \ calls :
                 /\ c.kind = "delete" /\ c.phase = "sent"
                 /\ c.cur = pinAction.currency /\ c.row.id = pinAction.transactionId
          /\ pinAction.type = "edit" =>
               /\ showEditTransaction'
               /\ editingTransaction' = pinAction.transaction]_vars

\* C28: once every report load under way has completed, the statistics, the
\* top-clients list, the monthly trends on screen and the cached raw
\* transactions all come from the load issued for the period and dates
\* selected last, whatever the order in which overlapping loads completed.
C28_LatestLoadShown ==
  LET range == getDateRange(selectedPeriod, customStartDate, customEndDate)
      kes == inRange(tables.kes, range)
      usd == inRange(tables.usd, range)
  IN (/\ ReportsShown /\ reportCalls = {}
      /\ ~(selectedPeriod = "custom" /\ (customStartDate = NoDate \/ customEndDate = NoDate)))
       => /\ clientStats = clientStatsOf(tables.clients, kes, usd)
          /\ topClients = topClientsList(kes, usd)
          /\ monthlyTrends = trends(kes, usd)
          /\ txCache = [kes |-> kes, usd |-> usd]

\* C29: a busy flag that an operation set is cleared again once the
\* operation's persistence calls are answered or its generation step is
\* over, whether it succeeds, fails, returns early or throws: submitting,
\* isSavingInline, loading of the detail view (whose failed load leaves the
\* view), loading of the reports view, and exportingCombined, which no step
\* leaves set.
C29_BusyFlagsClear ==
  /\ (mounted /\ submitting) ~> ~submitting
  /\ (mounted /\ isSavingInline) ~> ~isSavingInline
  /\ (mounted /\ loading) ~> (~loading \/ ~mounted)
  /\ (ReportsShown /\ reportsLoading) ~> ~reportsLoading
  /\ [](~exportingCombined)

\* an insert has failed, its handler has run to its end and no flag is left set
C29_Witness ==
  /\ mounted /\ ~loading /\ ~submitting /\ ~isSavingInline /\ calls = {}
  /\ <<"error", "Failed to add transaction. Please try again.">> \in toast
  /\ db.kes # {} /\ nextId = MaxId

\* the sum of field f over the entries of a list
RECURSIVE Total(_, _)
Total(list, f) ==
  IF list = <<>> THEN 0 ELSE Head(list)[f] + Total(Tail(list), f)

\* C30: after a successful load the rollups agree with each other: the
\* transaction counts of all per-client entries (before the list is cut to
\* ten) add up to totalTransactions and to the KES and USD counts of all
\* monthly buckets, and in each currency the per-client nets and the monthly
\* nets both add up to the total balance.
C30_RollupsAgree ==
  [][\A c \in reportCalls :
       (loadReportsReturns(c) /\ c.resp = "ok" /\ ~c.left) =>
         LET perClient == clientMapValues(c.kes, c.usd) IN
         /\ Total(perClient, "transaction_count") = clientStats'.totalTransactions
         /\ Total(monthlyTrends', "transactions_kes")
              + Total(monthlyTrends', "transactions_usd") = clientStats'.totalTransactions
         /\ Total(perClient, "total_balance_kes") = clientStats'.totalBalanceKES
         /\ Total(monthlyTrends', "balance_kes") = clientStats'.totalBalanceKES
         /\ Total(perClient, "total_balance_usd") = clientStats'.totalBalanceUSD
         /\ Total(monthlyTrends', "balance_usd") = clientStats'.totalBalanceUSD
         /\ Len(perClient) <= TopLimit =>
              /\ Total(topClients', "transaction_count") = clientStats'.totalTransactions
              /\ Total(topClients', "total_balance_kes") = clientStats'.totalBalanceKES
              /\ Total(topClients', "total_balance_usd") = clientStats'.totalBalanceUSD]_vars

\* a load over more clients than the list takes, two months and both
\* currencies has been stored: the list on screen leaves transactions out
C30_Witness ==
  /\ ~reportsLoading /\ reportCalls = {}
  /\ Len(topClients) = TopLimit /\ Len(monthlyTrends) >= 2
  /\ clientStats.totalTransactions > Total(topClients, "transaction_count")
  /\ Total(monthlyTrends, "transactions_usd") > 0
  /\ clientStats.totalBalanceKES # 0
====
